---- MODULE Spec2Model ----
(***************************************************************************)
(* State-machine model of the payout gateway (src/src/index.js, the last   *)
(* revision in the file, lines 421-1172) with its in-memory cache          *)
(* (src/unnamed/part_000, class InMemoryCache).                            *)
(*                                                                         *)
(* Encoding of JavaScript values                                           *)
(*   - a string is a sequence of one-character strings: "ab" is <<"a","b">>*)
(*     and the empty string is <<>>;                                       *)
(*   - undefined (a missing query parameter or metadata field) is Undef;   *)
(*   - null returned by normalizeTenant is Null, the empty sequence: a     *)
(*     non-null result of normalizeTenant is never empty;                  *)
(*   - a cache lookup that finds nothing returns NoPayload.                *)
(***************************************************************************)
EXTENDS Integers, Sequences, FiniteSets, TLC

Undef == <<"undefined">>
Null == <<>>

\* JavaScript truthiness of a string-or-undefined value.
Truthy(v) == v # Undef /\ v # <<>>

Has(body, field) == field \in DOMAIN body
Flag(body, field) == Has(body, field) /\ body[field] = TRUE

Min(a, b) == IF a < b THEN a ELSE b
Max(a, b) == IF a > b THEN a ELSE b

----------------------------------------------------------------------------
(* Strings *)

IsSpace(c) == c = " "

ToLowerChar(c) ==
  CASE c = "A" -> "a"
    [] c = "B" -> "b"
    [] c = "P" -> "p"
    [] c = "Q" -> "q"
    [] OTHER -> c

toLowerCase(s) == [i \in 1..Len(s) |-> ToLowerChar(s[i])]

RECURSIVE TrimLeft(_)
TrimLeft(s) ==
  IF s = <<>> THEN <<>>
  ELSE IF IsSpace(Head(s)) THEN TrimLeft(Tail(s)) ELSE s

RECURSIVE TrimRight(_)
TrimRight(s) ==
  IF s = <<>> THEN <<>>
  ELSE IF IsSpace(s[Len(s)]) THEN TrimRight(SubSeq(s, 1, Len(s) - 1)) ELSE s

trim(s) == TrimRight(TrimLeft(s))

\* String.prototype.includes
includes(hay, needle) ==
  \E i \in 0..(Len(hay) - Len(needle)) :
     SubSeq(hay, i + 1, i + Len(needle)) = needle

\* Array.prototype.join(' ') over a sequence of strings
RECURSIVE joinSpace(_)
joinSpace(ss) ==
  IF ss = <<>> THEN <<>>
  ELSE IF Len(ss) = 1 THEN ss[1]
  ELSE ss[1] \o <<" ">> \o joinSpace(Tail(ss))

\* Array.prototype.filter(Boolean) over a sequence of string-or-undefined
RECURSIVE filterBoolean(_)
filterBoolean(ss) ==
  IF ss = <<>> THEN <<>>
  ELSE IF Truthy(Head(ss)) THEN <<Head(ss)>> \o filterBoolean(Tail(ss))
  ELSE filterBoolean(Tail(ss))

Digits == {"0", "1", "2", "3", "4", "5", "6", "7", "8", "9"}

DigitVal(c) ==
  CASE c = "0" -> 0 [] c = "1" -> 1 [] c = "2" -> 2 [] c = "3" -> 3
    [] c = "4" -> 4 [] c = "5" -> 5 [] c = "6" -> 6 [] c = "7" -> 7
    [] c = "8" -> 8 [] c = "9" -> 9

\* The value of the longest prefix of s made of digits, continuing acc.
RECURSIVE DigitPrefix(_, _)
DigitPrefix(s, acc) ==
  IF s = <<>> \/ Head(s) \notin Digits THEN acc
  ELSE DigitPrefix(Tail(s), 10 * acc + DigitVal(Head(s)))

\* Number.parseInt(value, 10): [nan |-> TRUE] or [nan |-> FALSE, n |-> k].
\* undefined converts to the string "undefined", which has no digits.
NaN == [nan |-> TRUE, n |-> 0]
parseInt(v) ==
  IF v = Undef THEN NaN
  ELSE LET t == TrimLeft(v)
           neg == t # <<>> /\ Head(t) = "-"
           body == IF t # <<>> /\ Head(t) \in {"-", "+"} THEN Tail(t) ELSE t
       IN IF body = <<>> \/ Head(body) \notin Digits THEN NaN
          ELSE [nan |-> FALSE,
                n |-> IF neg THEN 0 - DigitPrefix(body, 0)
                      ELSE DigitPrefix(body, 0)]

----------------------------------------------------------------------------
(* Request parsing helpers *)

parseLimit(value) ==
  LET parsed == parseInt(value)
  IN IF parsed.nan THEN 100 ELSE Min(Max(parsed.n, 1), 100)

\* an offset parser that lets a negative value through
parseOffset_KeepsNegative(value) ==
  LET parsed == parseInt(value)
  IN IF parsed.nan THEN 0 ELSE parsed.n

parseOffset(value) ==
  LET parsed == parseInt(value)
  IN IF parsed.nan \/ parsed.n < 0 THEN 0 ELSE parsed.n

\* a normalization that trims but keeps the letter case
normalizeTenant_KeepsCase(value) ==
  IF value = Undef THEN Null ELSE trim(value)

normalizeTenant(value) ==
  IF value = Undef THEN Null
  ELSE LET trimmed == trim(value)
       IN IF trimmed # <<>> THEN toLowerCase(trimmed) ELSE Null

\* req.query: the parsed query string, an ordered list of <<name, value>>.
Param(q, name) ==
  IF \E i \in 1..Len(q) : q[i][1] = name
  THEN q[CHOOSE i \in 1..Len(q) : q[i][1] = name][2]
  ELSE Undef

\* a key built from the normalized tenant
buildCacheKey_Normalized(tenantId, path, params) ==
  <<normalizeTenant(tenantId), path, params>>

\* a key that leaves the refresh parameter out
buildCacheKey_NoRefresh(tenantId, path, params) ==
  <<tenantId, path, SelectSeq(params, LAMBDA kv : kv[1] # "refresh")>>

\* a key that leaves the query parameters out
buildCacheKey_NoQuery(tenantId, path, params) == <<tenantId, path, <<>>>>

\* [tenantId, path, JSON.stringify(params)].join(':').  JSON.stringify
\* writes the parameters in their insertion order; the serialisation is
\* modelled by the ordered list itself and the join by a tuple.
buildCacheKey(tenantId, path, params) == <<tenantId, path, params>>

ListPath == <<"/", "p">>

True == <<"t", "r", "u", "e">>
Manual == <<"m", "a", "n", "u", "a", "l">>
Automatic == <<"a", "u", "t", "o">>

----------------------------------------------------------------------------
(* Upstream records *)

Payout(id, desc, mdTenantId, mdTenant, type, automatic, created, txc) ==
  [id |-> id, description |-> desc, md_tenantId |-> mdTenantId,
   md_tenant |-> mdTenant, type |-> type, automatic |-> automatic,
   created |-> created, md_transaction_count |-> txc]

\* tenant a through the canonical key
PoA == Payout(<<"p">>, <<"a", "b">>, <<"a">>, Undef, Automatic, "true", 100, <<"2">>)
\* tenant b through the legacy key, written with a space and a capital
PoB == Payout(<<"q">>, Undef, Undef, <<" ", "B">>, Manual, "false", 100, Undef)
\* no tenant metadata at all
PoU == Payout(<<"u">>, Undef, Undef, Undef, Manual, "missing", 100, <<"x">>)
\* blank canonical key, tenant a through the legacy key
PoA2 == Payout(<<"w">>, <<"P">>, <<" ">>, <<"A">>, Automatic, "true", 0, Undef)

attributedTenant(payout) ==
  LET t == normalizeTenant(payout.md_tenantId)
  IN IF t # Null THEN t ELSE normalizeTenant(payout.md_tenant)

shapePayoutForResponse(payout) ==
  LET transactionCount == IF Truthy(payout.md_transaction_count)
                          THEN payout.md_transaction_count ELSE Undef
      parsed == parseInt(transactionCount)
  IN [transaction_count |->
        IF transactionCount # Undef /\ ~parsed.nan THEN parsed.n ELSE 0]
     @@ payout

\* Errors: the fields the handlers read.  The message is one of a few
\* literal messages; MessageIncludes is message.toLowerCase().includes(...).
Err(code, statusCode, causeCode, causeName, message) ==
  [code |-> code, statusCode |-> statusCode, causeCode |-> causeCode,
   causeName |-> causeName, message |-> message]

MessageIncludes(message, phrase) ==
  \/ message = "Headers Timeout Error" /\ phrase = "headers timeout"
  \/ message = "TypeError: fetch failed" /\ phrase = "fetch failed"
  \/ message = "Balance transaction history can only be filtered on automatic transfers"
       /\ phrase = "only be filtered on automatic transfers"
  \/ message = "You cannot filter balance transaction history on manual payouts"
       /\ phrase = "cannot filter balance transaction history"

ErrStripeTimeout == Err("STRIPE_TIMEOUT", 0, "", "", "Stripe request timed out")
ErrEtimedout == Err("ETIMEDOUT", 0, "", "", "connect ETIMEDOUT")
ErrConnReset == Err("ECONNRESET", 0, "", "", "socket hang up")
ErrFetchFailed == Err("", 0, "", "", "TypeError: fetch failed")
ErrHeaders == Err("", 0, "UND_ERR_HEADERS_TIMEOUT", "HeadersTimeoutError", "Headers Timeout Error")
ErrApi == Err("api_error", 500, "", "", "An unknown error occurred")
ErrRateLimit == Err("rate_limit", 429, "", "", "Too many requests")
ErrNotFound == Err("resource_missing", 404, "", "", "No such payout")
ErrManualCode == Err("balance_transactions_manual_filtering_not_allowed", 400, "", "",
                     "Balance transaction history can only be filtered on automatic transfers")
ErrManualMsg == Err("", 400, "", "",
                    "You cannot filter balance transaction history on manual payouts")

----------------------------------------------------------------------------
(* InMemoryCache *)

MsPerSecond == 1000

\* expiresAt of an entry stored without a TTL (null)
NeverExpires == 0 - 1
NoPayload == [none |-> TRUE]

\* off by one: an entry counts as expired at expiresAt itself
Expired_AtExpiry(record, now) ==
  record.expiresAt # NeverExpires /\ record.expiresAt # 0 /\ record.expiresAt <= now

Expired(record, now) ==
  record.expiresAt # NeverExpires /\ record.expiresAt # 0 /\ record.expiresAt < now

\* get without the expiry check
cacheGet_NoExpiry(s, key, now) ==
  IF key \notin DOMAIN s THEN NoPayload ELSE s[key].value

\* get(key): the value returned ...
cacheGet(s, key, now) ==
  IF key \notin DOMAIN s THEN NoPayload
  ELSE IF Expired(s[key], now) THEN NoPayload
  ELSE s[key].value

\* get that leaves an expired entry in the store
cacheGetStore_NoDelete(s, key, now) == s

\* ... and the store it leaves behind (an expired entry is deleted)
cacheGetStore(s, key, now) ==
  IF key \in DOMAIN s /\ Expired(s[key], now)
  THEN [k \in DOMAIN s \ {key} |-> s[k]]
  ELSE s

\* set that computes an expiry time whatever the TTL
cacheSet_AlwaysExpires(s, key, value, ttlSeconds, now) ==
  [k \in DOMAIN s \cup {key} |->
     IF k = key
     THEN [value |-> value, expiresAt |-> now + ttlSeconds * MsPerSecond]
     ELSE s[k]]

\* set(key, value, ttlSeconds)
cacheSet(s, key, value, ttlSeconds, now) ==
  LET expiresAt == IF ttlSeconds # 0 THEN now + ttlSeconds * MsPerSecond ELSE NeverExpires
  IN [k \in DOMAIN s \cup {key} |->
        IF k = key THEN [value |-> value, expiresAt |-> expiresAt] ELSE s[k]]

----------------------------------------------------------------------------
(* GET /api/payouts: the synchronous parts of the handler *)

\* Array.prototype.slice(from) and slice(0, n)
sliceFrom(s, from) == SubSeq(s, from + 1, Len(s))
sliceTo(s, n) == SubSeq(s, 1, Min(n, Len(s)))

tenantFilterOf(tenantIdHeader, q) ==
  IF Truthy(Param(q, "tenantId")) THEN Param(q, "tenantId") ELSE tenantIdHeader

hasCursor(q) == Truthy(Param(q, "starting_after")) \/ Truthy(Param(q, "ending_before"))

\* listParams handed to stripe.payouts.list (the created range is left out:
\* the modelled queries carry no from_date / to_date)
listParamsOf(q) ==
  LET limit == parseLimit(Param(q, "limit"))
      offset == parseOffset(Param(q, "offset"))
  IN [limit |-> Min(IF hasCursor(q) THEN limit ELSE Min(limit + offset, 100), 100),
      starting_after |-> Param(q, "starting_after"),
      ending_before |-> Param(q, "ending_before"),
      status |-> Param(q, "status")]

\* the tenant part of the data.filter callback
tenantMatches(payout, normalizedTenantFilter, allowUnattributed) ==
  IF normalizedTenantFilter # Null
  THEN LET metadataTenant == attributedTenant(payout)
       IN IF metadataTenant # Null
          THEN metadataTenant = normalizedTenantFilter
          ELSE allowUnattributed
  ELSE TRUE

typeMatches(payout, type) == ~(Truthy(type) /\ payout.type # type)

searchMatches(payout, search) ==
  IF Truthy(search)
  THEN LET haystack == toLowerCase(joinSpace(filterBoolean(
                         <<payout.id, payout.description,
                           payout.md_tenantId, payout.md_tenant>>)))
       IN includes(haystack, search)
  ELSE TRUE

searchOf(q) ==
  IF Param(q, "search") = Undef THEN Undef ELSE toLowerCase(Param(q, "search"))

payoutFilter(payout, tenantIdHeader, q, allowUnattributed) ==
  /\ tenantMatches(payout, normalizeTenant(tenantFilterOf(tenantIdHeader, q)),
                   allowUnattributed)
  /\ typeMatches(payout, Param(q, "type"))
  /\ searchMatches(payout, searchOf(q))

\* an offset skip that is made with a cursor too
afterOffset_WithCursor(q, data) ==
  IF parseOffset(Param(q, "offset")) > 0
  THEN sliceFrom(data, parseOffset(Param(q, "offset")))
  ELSE data

\* the page after the offset skip
afterOffset(q, data) ==
  IF ~hasCursor(q) /\ parseOffset(Param(q, "offset")) > 0
  THEN sliceFrom(data, parseOffset(Param(q, "offset")))
  ELSE data

\* a payload whose has_more tells whether the truncation left records out
listPayload_OwnHasMore(tenantIdHeader, q, payouts, allowUnattributed) ==
  LET Keep(p) == payoutFilter(p, tenantIdHeader, q, allowUnattributed)
      data == SelectSeq(afterOffset(q, payouts.data), Keep)
      cut == sliceTo(data, parseLimit(Param(q, "limit")))
      shaped == [i \in 1..Len(cut) |-> shapePayoutForResponse(cut[i])]
  IN [success |-> TRUE, data |-> shaped, total_count |-> Len(shaped),
      has_more |-> Len(data) > Len(cut)]

\* the payload built from a fetched page
listPayload(tenantIdHeader, q, payouts, allowUnattributed) ==
  LET Keep(p) == payoutFilter(p, tenantIdHeader, q, allowUnattributed)
      data == SelectSeq(afterOffset(q, payouts.data), Keep)
      cut == sliceTo(data, parseLimit(Param(q, "limit")))
      shaped == [i \in 1..Len(cut) |-> shapePayoutForResponse(cut[i])]
  IN [success |-> TRUE, data |-> shaped, total_count |-> Len(shaped),
      has_more |-> payouts.has_more]

\* the classification without the bounded wait's own code
isTimeoutError_NoBound(error) ==
  \/ error.code = "ETIMEDOUT"
  \/ error.code = "ECONNRESET"
  \/ error.code = "FETCH_FAILED"
  \/ error.causeCode = "UND_ERR_HEADERS_TIMEOUT"
  \/ error.causeName = "HeadersTimeoutError"
  \/ MessageIncludes(error.message, "headers timeout")
  \/ MessageIncludes(error.message, "fetch failed")

isTimeoutError(error) ==
  \/ error.code = "ETIMEDOUT"
  \/ error.code = "ECONNRESET"
  \/ error.code = "FETCH_FAILED"
  \/ error.code = "STRIPE_TIMEOUT"
  \/ error.causeCode = "UND_ERR_HEADERS_TIMEOUT"
  \/ error.causeName = "HeadersTimeoutError"
  \/ MessageIncludes(error.message, "headers timeout")
  \/ MessageIncludes(error.message, "fetch failed")

emptyPayload(reason) ==
  [success |-> TRUE, data |-> <<>>, total_count |-> 0, has_more |-> FALSE,
   cached |-> FALSE, stale |-> TRUE, error |-> reason]

stalePayload(cachedPayload, reason) ==
  [cached |-> TRUE, stale |-> TRUE, error |-> reason] @@ cachedPayload

Ok(body) == [status |-> 200, body |-> body]

\* the error-handling middleware, reached through next(error)
errorMiddleware(err) == [status |-> 500, body |-> [error |-> err.message]]

\* the catch block as it was one revision earlier (index.js 256-311): an
\* error that is not of the timeout class goes to next(error)
listFailure_PassesOn(cachedPayload, error) ==
  IF isTimeoutError(error) /\ cachedPayload # NoPayload
  THEN Ok([cached |-> TRUE, stale |-> TRUE, error |-> "stripe_timeout"] @@ cachedPayload)
  ELSE IF isTimeoutError(error)
  THEN Ok([success |-> TRUE, data |-> <<>>, total_count |-> 0, has_more |-> FALSE,
           cached |-> FALSE, stale |-> TRUE, error |-> "stripe_timeout"])
  ELSE [status |-> 500, body |-> [error |-> error.message]]

\* the catch block of the listing handler
listFailure(cachedPayload, error) ==
  IF isTimeoutError(error) /\ cachedPayload # NoPayload
  THEN Ok(stalePayload(cachedPayload, "stripe_timeout"))
  ELSE IF isTimeoutError(error)
  THEN Ok(emptyPayload("stripe_timeout"))
  ELSE IF cachedPayload # NoPayload
  THEN Ok(stalePayload(cachedPayload, "stripe_error"))
  ELSE Ok(emptyPayload("stripe_error"))

----------------------------------------------------------------------------
(* State *)

VARIABLES
  cfg,    \* config: allowUnattributedPayouts, cacheTtlSeconds, stripeTimeoutMs
  now,    \* Date.now(), in milliseconds
  store,  \* InMemoryCache.store: key -> [value, expiresAt]
  req,    \* the requests: slot -> the handler's locals and its position
  resp    \* slot -> the response sent (NoResp before)

vars == <<cfg, now, store, req, resp>>

\* Bounds of the model
MaxRequests == 3
MaxTicks == 2
MaxPage == 2

Slots == 1..MaxRequests
IdleReq == [op |-> "none", pc |-> "idle"]
NoResp == [status |-> 0]

Config(allow, ttl, timeoutMs) ==
  [allowUnattributedPayouts |-> allow, cacheTtlSeconds |-> ttl,
   stripeTimeoutMs |-> timeoutMs]

\* a configuration in which no upstream bound is set
ConfigWithoutBound(allow, ttl) ==
  [allowUnattributedPayouts |-> allow, cacheTtlSeconds |-> ttl]

InitWith(configs) ==
  /\ cfg \in configs
  /\ now = MsPerSecond
  /\ store = <<>>
  /\ req = [r \in Slots |-> IdleReq]
  /\ resp = [r \in Slots |-> NoResp]

\* slots are taken in order
CanStart(r) ==
  /\ req[r].pc = "idle"
  /\ \A s \in Slots : s < r => req[s].pc # "idle"

\* the requests answered so far
Answered == {s \in Slots : req[s].pc = "done"}

\* res.json / res.status(..).json: the response, with the requests answered
\* before it (which orders the responses) and what kind of answer it is
Respond(r, response, kind) ==
  resp' = [resp EXCEPT ![r] = response @@ [kind |-> kind, after |-> Answered]]

\* time passes
Tick ==
  /\ now < MsPerSecond * (1 + MaxTicks)
  /\ now' = now + MsPerSecond
  /\ UNCHANGED <<cfg, store, req, resp>>

\* a timer that is armed whatever the configured bound
TimerDue_Unconfigured(r) ==
  /\ req[r].pc \notin {"idle", "done"}
  /\ now >= req[r].callStart + cfg.stripeTimeoutMs

\* a timer that is armed by any bound other than zero; a negative delay
\* runs the timer at once
TimerDue_NonZero(r) ==
  /\ req[r].pc \notin {"idle", "done"}
  /\ Has(cfg, "stripeTimeoutMs")
  /\ cfg.stripeTimeoutMs # 0
  /\ now >= req[r].callStart + cfg.stripeTimeoutMs

\* withStripeTimeout: the timer can settle the wait only when a positive
\* bound is configured and has elapsed since the call was issued
TimerDue(r) ==
  /\ req[r].pc \notin {"idle", "done"}
  /\ Has(cfg, "stripeTimeoutMs")
  /\ cfg.stripeTimeoutMs > 0
  /\ now >= req[r].callStart + cfg.stripeTimeoutMs

----------------------------------------------------------------------------
(* GET /api/payouts *)

\* a handler that never takes the refresh parameter into account
refreshOf_Never(q) == FALSE

\* req.query.refresh === 'true'
refreshOf(q) == Param(q, "refresh") = True

\* from the entry of the handler to its first await (or to the cached answer)
StartList(r, tenantIdHeader, q) ==
  LET refresh == refreshOf(q)
      queryKey == buildCacheKey(tenantIdHeader, ListPath, q)
      cachedPayload == IF refresh THEN NoPayload ELSE cacheGet(store, queryKey, now)
      found == ~refresh /\ queryKey \in DOMAIN store
      locals == [op |-> "list", tenant |-> tenantIdHeader, query |-> q,
                 key |-> queryKey, cachedPayload |-> cachedPayload,
                 startedAt |-> now, started |-> Answered,
                 entryAtStart |-> queryKey \in DOMAIN store,
                 lookup |-> IF refresh THEN "skipped"
                            ELSE IF ~found THEN "absent"
                            ELSE IF cachedPayload = NoPayload THEN "expired"
                            ELSE "hit",
                 entryExpiresAt |-> IF found THEN store[queryKey].expiresAt
                                    ELSE NeverExpires]
  IN /\ CanStart(r)
     /\ store' = IF refresh THEN store ELSE cacheGetStore(store, queryKey, now)
     /\ IF cachedPayload # NoPayload
        THEN /\ req' = [req EXCEPT ![r] =
                          locals @@ [pc |-> "done", calls |-> 0, callStart |-> 0]]
             /\ Respond(r, Ok([cached |-> TRUE] @@ cachedPayload), "hit")
        ELSE /\ req' = [req EXCEPT ![r] =
                          locals @@ [pc |-> "wait", calls |-> 1, callStart |-> now]]
             /\ UNCHANGED resp
     /\ UNCHANGED <<cfg, now>>

\* a handler that leaves an entry already stored under its key as it is
ListResolves_KeepsFirst(r, payouts) ==
  /\ req[r].op = "list" /\ req[r].pc = "wait"
  /\ Len(payouts.data) <= listParamsOf(req[r].query).limit
  /\ LET payload == listPayload(req[r].tenant, req[r].query, payouts,
                                cfg.allowUnattributedPayouts)
     IN /\ store' = IF req[r].key \in DOMAIN store THEN store
                    ELSE cacheSet(store, req[r].key, payload, cfg.cacheTtlSeconds, now)
        /\ Respond(r, Ok(payload) @@ [page |-> payouts, wroteAt |-> now], "fresh")
  /\ req' = [req EXCEPT ![r].pc = "done", ![r].callStart = 0]
  /\ UNCHANGED <<cfg, now>>

\* stripe.payouts.list resolves before the timer: the rest of the try block
ListResolves(r, payouts) ==
  /\ req[r].op = "list" /\ req[r].pc = "wait"
  /\ Len(payouts.data) <= listParamsOf(req[r].query).limit
  /\ LET payload == listPayload(req[r].tenant, req[r].query, payouts,
                                cfg.allowUnattributedPayouts)
     IN /\ store' = cacheSet(store, req[r].key, payload, cfg.cacheTtlSeconds, now)
        /\ Respond(r, Ok(payload) @@ [page |-> payouts, wroteAt |-> now], "fresh")
  /\ req' = [req EXCEPT ![r].pc = "done", ![r].callStart = 0]
  /\ UNCHANGED <<cfg, now>>

\* a catch block that stores the payload it answers with
ListFails_Caches(r, error) ==
  /\ req[r].op = "list" /\ req[r].pc = "wait"
  /\ Respond(r, listFailure(req[r].cachedPayload, error) @@ [cause |-> error],
             "degraded")
  /\ store' = cacheSet(store, req[r].key,
                       listFailure(req[r].cachedPayload, error).body,
                       cfg.cacheTtlSeconds, now)
  /\ req' = [req EXCEPT ![r].pc = "done", ![r].callStart = 0]
  /\ UNCHANGED <<cfg, now>>

\* the awaited call fails with error (the upstream's own, or the timer's)
ListFails(r, error) ==
  /\ req[r].op = "list" /\ req[r].pc = "wait"
  /\ Respond(r, listFailure(req[r].cachedPayload, error) @@ [cause |-> error],
             "degraded")
  /\ req' = [req EXCEPT ![r].pc = "done", ![r].callStart = 0]
  /\ UNCHANGED <<cfg, now, store>>

ListRejects(r, error) == ListFails(r, error)

ListTimesOut(r) == TimerDue(r) /\ ListFails(r, ErrStripeTimeout)

----------------------------------------------------------------------------
(* GET /api/payouts/:id and GET /api/payouts/:id/transactions *)

dayInSeconds == 86400

NotFound(message) == [status |-> 404, body |-> [error |-> message]]

\* a tenant check that lets every attributed payout through
tenantAllowed_AttributedPass(payout, normalizedTenantId, allowUnattributed) ==
  LET payoutTenant == attributedTenant(payout)
  IN IF normalizedTenantId # Null /\ payoutTenant # Null
     THEN TRUE
     ELSE ~(normalizedTenantId # Null /\ ~allowUnattributed)

\* the tenant check both handlers make on the retrieved payout
tenantAllowed(payout, normalizedTenantId, allowUnattributed) ==
  LET payoutTenant == attributedTenant(payout)
  IN IF normalizedTenantId # Null /\ payoutTenant # Null
     THEN payoutTenant = normalizedTenantId
     ELSE ~(normalizedTenantId # Null /\ ~allowUnattributed)

\* a call handed to the upstream client
Call(fn, params) == [fn |-> fn, params |-> params]

Issue(r, locals, pc, call) ==
  req' = [req EXCEPT ![r] =
            [pc |-> pc, callStart |-> now, calls |-> locals.calls + 1,
             callLog |-> Append(locals.callLog, call)] @@ locals]

Finish(r) == req' = [req EXCEPT ![r].pc = "done", ![r].callStart = 0]

StartRetrieve(r, op, tenantId, id, q) ==
  /\ CanStart(r)
  /\ Issue(r, [op |-> op, tenant |-> tenantId, id |-> id, query |-> q,
               started |-> Answered, calls |-> 0, callLog |-> <<>>],
           "retrieve", Call("payouts.retrieve", [id |-> id]))
  /\ UNCHANGED <<cfg, now, store, resp>>

StartDetail(r, tenantId, id) == StartRetrieve(r, "detail", tenantId, id, <<>>)

StartTransactions(r, tenantId, id, q) == StartRetrieve(r, "tx", tenantId, id, q)

\* GET /api/payouts/:id after stripe.payouts.retrieve resolved
DetailResolves(r, payout) ==
  /\ req[r].op = "detail" /\ req[r].pc = "retrieve"
  /\ payout.id = req[r].id
  /\ IF tenantAllowed(payout, normalizeTenant(req[r].tenant),
                      cfg.allowUnattributedPayouts)
     THEN Respond(r, Ok([payout |-> payout]), "ok")
     ELSE Respond(r, NotFound("Payout not found for tenant"), "mismatch")
  /\ Finish(r)
  /\ UNCHANGED <<cfg, now, store>>

\* the catch block of GET /api/payouts/:id
detailFailure(error) ==
  IF error.statusCode = 404 THEN NotFound("Payout not found")
  ELSE errorMiddleware(error)

DetailFails(r, error) ==
  /\ req[r].op = "detail" /\ req[r].pc = "retrieve"
  /\ Respond(r, detailFailure(error) @@ [cause |-> error],
             IF error.statusCode = 404 THEN "notfound" ELSE "error")
  /\ Finish(r)
  /\ UNCHANGED <<cfg, now, store>>

DetailRejects(r, error) == DetailFails(r, error)

DetailTimesOut(r) == TimerDue(r) /\ DetailFails(r, ErrStripeTimeout)

\* a classification by the declared type alone
isManualPayout_TypeOnly(payout) == payout.type = Manual

\* payout.type === 'manual' || !payout.automatic
isManualPayout(payout) == payout.type = Manual \/ payout.automatic # "true"

\* listParams of the transactions handler
txListParams(q) ==
  [limit |-> parseLimit(Param(q, "limit")),
   starting_after |-> IF Truthy(Param(q, "starting_after"))
                      THEN Param(q, "starting_after") ELSE Undef,
   ending_before |-> IF Truthy(Param(q, "ending_before"))
                     THEN Param(q, "ending_before") ELSE Undef]

DirectCall(id, q) ==
  Call("balanceTransactions.list", [payout |-> id] @@ txListParams(q))

\* a scan that asks for a single record
ScanCall_OneRecord(payout, daysBefore, daysAfter) ==
  Call("balanceTransactions.list",
       [gte |-> payout.created - dayInSeconds * daysBefore,
        lte |-> payout.created + dayInSeconds * daysAfter,
        limit |-> 1])

ScanCall(payout, daysBefore, daysAfter) ==
  Call("balanceTransactions.list",
       [gte |-> payout.created - dayInSeconds * daysBefore,
        lte |-> payout.created + dayInSeconds * daysAfter,
        limit |-> 100])

\* allTransactions.data.filter((tx) => tx.payout === id)
referencing(data, id) == SelectSeq(data, LAMBDA tx : tx.payout = id)

NoData == <<[missing |-> TRUE]>>
EmptyResult == [data |-> <<>>, has_more |-> FALSE]

\* res.json({data: transactions.data || [], has_more: transactions.has_more || false})
txResponse(transactions) ==
  Ok([data |-> IF transactions.data = NoData THEN <<>> ELSE transactions.data,
      has_more |-> transactions.has_more])

\* a scan that keeps every transaction of the window
scanResult_Unfiltered(allTransactions, id) ==
  IF allTransactions.data # NoData
  THEN [data |-> allTransactions.data, has_more |-> FALSE]
  ELSE EmptyResult

\* the transactions found by a date-range scan of the manual kind
scanResult(allTransactions, id) ==
  IF allTransactions.data # NoData
  THEN [data |-> referencing(allTransactions.data, id), has_more |-> FALSE]
  ELSE EmptyResult

\* after stripe.payouts.retrieve resolved: tenant check, then the first
\* balance-transaction call
TxRetrieveResolves(r, payout) ==
  /\ req[r].op = "tx" /\ req[r].pc = "retrieve"
  /\ payout.id = req[r].id
  /\ IF ~tenantAllowed(payout, normalizeTenant(req[r].tenant),
                       cfg.allowUnattributedPayouts)
     THEN /\ Respond(r, NotFound("Payout transactions not found"), "mismatch")
          /\ Finish(r)
     ELSE /\ IF isManualPayout(payout)
             THEN Issue(r, [payout |-> payout] @@ req[r], "manualScan",
                        ScanCall(payout, 30, 1))
             ELSE Issue(r, [payout |-> payout] @@ req[r], "direct",
                        DirectCall(req[r].id, req[r].query))
          /\ UNCHANGED resp
  /\ UNCHANGED <<cfg, now, store>>

\* a classification that knows the condition by its code only
isManualPayoutErrorInner_CodeOnly(error) ==
  error.code = "balance_transactions_manual_filtering_not_allowed"

isManualPayoutErrorInner(error) ==
  \/ error.code = "balance_transactions_manual_filtering_not_allowed"
  \/ MessageIncludes(error.message, "only be filtered on automatic transfers")
  \/ MessageIncludes(error.message, "cannot filter balance transaction history")

isManualPayoutErrorOuter(error) ==
  \/ error.code = "balance_transactions_manual_filtering_not_allowed"
  \/ MessageIncludes(error.message, "only be filtered on automatic transfers")

\* an outer catch block without the not-found branch
txFailure_PassesOn(error) ==
  IF isManualPayoutErrorOuter(error) THEN Ok(EmptyResult)
  ELSE errorMiddleware(error)

\* the outer catch block of the transactions handler
txFailure(error) ==
  IF error.statusCode = 404 THEN NotFound("Payout or transactions not found")
  ELSE IF isManualPayoutErrorOuter(error) THEN Ok(EmptyResult)
  ELSE errorMiddleware(error)

TxThrows(r, error) ==
  /\ Respond(r, txFailure(error) @@ [cause |-> error],
             IF error.statusCode = 404 THEN "notfound"
             ELSE IF isManualPayoutErrorOuter(error) THEN "masked" ELSE "error")
  /\ Finish(r)

TxRetrieveFails(r, error) ==
  /\ req[r].op = "tx" /\ req[r].pc = "retrieve"
  /\ TxThrows(r, error)
  /\ UNCHANGED <<cfg, now, store>>

\* the date-range scan of a manual payout resolved
ManualScanResolves(r, allTransactions) ==
  /\ req[r].op = "tx" /\ req[r].pc = "manualScan"
  /\ Respond(r, txResponse(scanResult(allTransactions, req[r].id))
                  @@ [scanned |-> allTransactions], "ok")
  /\ Finish(r)
  /\ UNCHANGED <<cfg, now, store>>

\* a fallback that is tried whatever the direct call returned
needsFallback_Always(transactions, payout) == payout.created # 0

\* (!transactions.data || transactions.data.length === 0) && payout.created
needsFallback(transactions, payout) ==
  /\ transactions.data = NoData \/ Len(transactions.data) = 0
  /\ payout.created # 0

\* the direct payout-filter call resolved
DirectResolves(r, transactions) ==
  /\ req[r].op = "tx" /\ req[r].pc = "direct"
  /\ IF needsFallback(transactions, req[r].payout)
     THEN /\ Issue(r, [transactions |-> transactions] @@ req[r], "fallbackScan",
                   ScanCall(req[r].payout, 7, 7))
          /\ UNCHANGED resp
     ELSE /\ Respond(r, txResponse(transactions) @@ [direct |-> transactions], "ok")
          /\ Finish(r)
  /\ UNCHANGED <<cfg, now, store>>

\* a fallback whose findings are dropped
FallbackScanResolves_KeepsDirect(r, fallbackTransactions) ==
  /\ req[r].op = "tx" /\ req[r].pc = "fallbackScan"
  /\ Respond(r, txResponse(req[r].transactions)
                  @@ [direct |-> req[r].transactions, scanned |-> fallbackTransactions],
             "ok")
  /\ Finish(r)
  /\ UNCHANGED <<cfg, now, store>>

\* the 7-day fallback scan resolved
FallbackScanResolves(r, fallbackTransactions) ==
  /\ req[r].op = "tx" /\ req[r].pc = "fallbackScan"
  /\ LET filtered == IF fallbackTransactions.data = NoData THEN <<>>
                     ELSE referencing(fallbackTransactions.data, req[r].id)
         asked == [direct |-> req[r].transactions, scanned |-> fallbackTransactions]
     IN IF Len(filtered) > 0
        THEN Respond(r, txResponse([data |-> filtered, has_more |-> FALSE]) @@ asked,
                     "ok")
        ELSE Respond(r, txResponse(req[r].transactions) @@ asked, "ok")
  /\ Finish(r)
  /\ UNCHANGED <<cfg, now, store>>

\* the 7-day fallback scan failed: the error is logged and dropped
FallbackScanFails(r, fallbackError) ==
  /\ req[r].op = "tx" /\ req[r].pc = "fallbackScan"
  /\ Respond(r, txResponse(req[r].transactions)
                  @@ [cause |-> fallbackError, direct |-> req[r].transactions], "ok")
  /\ Finish(r)
  /\ UNCHANGED <<cfg, now, store>>

\* the inner catch block: the first balance-transaction call failed
FirstCallFails(r, error) ==
  /\ req[r].op = "tx" /\ req[r].pc \in {"manualScan", "direct"}
  /\ IF isManualPayoutErrorInner(error) /\ ~isManualPayout(req[r].payout)
     THEN /\ Issue(r, [caught |-> error] @@ req[r], "crossScan",
                   ScanCall(req[r].payout, 30, 1))
          /\ UNCHANGED resp
     ELSE IF isManualPayoutErrorInner(error)
     THEN /\ Respond(r, Ok(EmptyResult) @@ [cause |-> error], "masked")
          /\ Finish(r)
     ELSE TxThrows(r, error)
  /\ UNCHANGED <<cfg, now, store>>

\* the scan made after the direct call was rejected as manual
CrossScanResolves(r, allTransactions) ==
  /\ req[r].op = "tx" /\ req[r].pc = "crossScan"
  /\ Respond(r, txResponse(scanResult(allTransactions, req[r].id))
                  @@ [scanned |-> allTransactions], "ok")
  /\ Finish(r)
  /\ UNCHANGED <<cfg, now, store>>

\* a cross scan whose failure is thrown to the outer catch block
CrossScanFails_Throws(r, fallbackError) ==
  /\ req[r].op = "tx" /\ req[r].pc = "crossScan"
  /\ TxThrows(r, fallbackError)
  /\ UNCHANGED <<cfg, now, store>>

CrossScanFails(r, fallbackError) ==
  /\ req[r].op = "tx" /\ req[r].pc = "crossScan"
  /\ Respond(r, txResponse(EmptyResult) @@ [cause |-> fallbackError], "ok")
  /\ Finish(r)
  /\ UNCHANGED <<cfg, now, store>>

\* whichever call the transactions handler awaits fails with error
TxCallFails(r, error) ==
  \/ TxRetrieveFails(r, error)
  \/ FirstCallFails(r, error)
  \/ FallbackScanFails(r, error)
  \/ CrossScanFails(r, error)

TxRejects(r, error) == TxCallFails(r, error)

\* a handler that bounds its wait for the retrieval only
TxTimesOut_RetrievalOnly(r) == TimerDue(r) /\ TxRetrieveFails(r, ErrStripeTimeout)

TxTimesOut(r) == TimerDue(r) /\ TxCallFails(r, ErrStripeTimeout)

----------------------------------------------------------------------------
(* The cache engine: concurrent listing requests over a running clock *)

RECURSIVE SeqsOver(_, _)
SeqsOver(S, n) ==
  IF n = 0 THEN {<<>>}
  ELSE LET shorter == SeqsOver(S, n - 1)
       IN shorter \cup {Append(s, x) : s \in {t \in shorter : Len(t) = n - 1}, x \in S}

Distinct(s) == \A i, j \in 1..Len(s) : i # j => s[i] # s[j]

PagesOver(S, n) ==
  {[data |-> d, has_more |-> h] : d \in {s \in SeqsOver(S, n) : Distinct(s)},
                                  h \in BOOLEAN}

CacheConfigs == {Config(FALSE, 1, 1000), Config(TRUE, 0, 0)}
CacheTenants == {<<"a">>}
CacheQueries == {<<>>, << <<"refresh", True>> >>}
CachePages == {[data |-> <<PoA, PoB>>, has_more |-> TRUE],
               [data |-> <<PoB, PoA2>>, has_more |-> FALSE]}
CacheErrors == {ErrEtimedout, ErrApi}

Init == InitWith(CacheConfigs)

Next ==
  \/ Tick
  \/ \E r \in Slots, t \in CacheTenants, q \in CacheQueries : StartList(r, t, q)
  \/ \E r \in Slots, p \in CachePages : ListResolves(r, p)
  \/ \E r \in Slots, e \in CacheErrors : ListRejects(r, e)
  \/ \E r \in Slots : ListTimesOut(r)

Spec == Init /\ [][Next]_vars

----------------------------------------------------------------------------
(* The query engine: one listing request over every kind of query, page
   and upstream failure *)

QueryConfigs == {Config(TRUE, 1, 1000), Config(FALSE, 1, 1000)}
\* X-Tenant: any non-empty string passes requireInternalHeaders
QueryTenants == {<<"a">>, <<"A">>, <<"b">>, <<" ">>}
QueryQueries ==
  { <<>>,
    << <<"tenantId", <<"b">>>> >>,
    << <<"tenantId", <<" ">>>> >>,
    << <<"limit", <<"1">>>> >>,
    << <<"offset", <<"1">>>> >>,
    << <<"limit", <<"1">>>>, <<"offset", <<"1">>>> >>,
    << <<"offset", <<"1">>>>, <<"starting_after", <<"p">>>> >>,
    << <<"type", Manual>> >>,
    << <<"search", <<"P">>>> >>,
    << <<"limit", <<"x">>>>, <<"offset", <<"-", "1">>>> >> }
QueryPages == PagesOver({PoA, PoB, PoU, PoA2}, MaxPage)
QueryErrors ==
  {ErrEtimedout, ErrConnReset, ErrFetchFailed, ErrHeaders, ErrApi,
   ErrRateLimit, ErrNotFound, ErrManualCode}

InitQuery == InitWith(QueryConfigs)

NextQuery ==
  \/ Tick
  \/ \E t \in QueryTenants, q \in QueryQueries : StartList(1, t, q)
  \/ \E p \in QueryPages : ListResolves(1, p)
  \/ \E e \in QueryErrors : ListRejects(1, e)
  \/ ListTimesOut(1)

SpecQuery == InitQuery /\ [][NextQuery]_vars

----------------------------------------------------------------------------
(* The single-payout operations: one detail or transactions request *)

Tx(id, payout, created) == [id |-> id, payout |-> payout, created |-> created]
TxP == Tx(<<"1">>, <<"p">>, 90)
TxQ == Tx(<<"2">>, <<"q">>, 95)
TxW == Tx(<<"3">>, <<"w">>, 5)
TxNone == Tx(<<"4">>, Null, 99)

UpstreamPayouts == {PoA, PoB, PoU, PoA2}
\* an id the upstream does not know
UnknownId == <<"z">>

TxTenants == {<<"a">>, <<"B">>, <<" ">>}
TxIds == {po.id : po \in UpstreamPayouts} \cup {UnknownId}
TxQueries == {<<>>, << <<"limit", <<"1">>>>, <<"starting_after", <<"1">>>> >>}
TxPages == {[data |-> <<>>, has_more |-> FALSE],
            [data |-> <<TxP, TxNone, TxQ, TxW>>, has_more |-> TRUE],
            [data |-> <<TxNone>>, has_more |-> FALSE],
            [data |-> NoData, has_more |-> FALSE]}
TxErrors == {ErrNotFound, ErrApi, ErrEtimedout, ErrManualCode, ErrManualMsg}

\* the steps of the two handlers, for the requests, tenants, ids and
\* upstream outcomes given
SingleOps(slots, tenants, ids, queries, pages, errors) ==
  \/ \E r \in slots, t \in tenants, id \in ids : StartDetail(r, t, id)
  \/ \E r \in slots, t \in tenants, id \in ids, q \in queries :
       StartTransactions(r, t, id, q)
  \/ \E r \in slots, po \in UpstreamPayouts : DetailResolves(r, po)
  \/ \E r \in slots, e \in errors : DetailRejects(r, e)
  \/ \E r \in slots : DetailTimesOut(r)
  \/ \E r \in slots, po \in UpstreamPayouts : TxRetrieveResolves(r, po)
  \/ \E r \in slots, txs \in pages : ManualScanResolves(r, txs)
  \/ \E r \in slots, txs \in pages : DirectResolves(r, txs)
  \/ \E r \in slots, txs \in pages : FallbackScanResolves(r, txs)
  \/ \E r \in slots, txs \in pages : CrossScanResolves(r, txs)
  \/ \E r \in slots, e \in errors : TxRejects(r, e)
  \/ \E r \in slots : TxTimesOut(r)

InitTx == InitWith(QueryConfigs)

NextTx == Tick \/ SingleOps({1}, TxTenants, TxIds, TxQueries, TxPages, TxErrors)

SpecTx == InitTx /\ [][NextTx]_vars

----------------------------------------------------------------------------
(* Two single-payout requests side by side: one for a payout of another
   tenant, one for an id the upstream does not know *)

PairTenants == {<<"a">>, <<"b">>}
PairIds == {PoA.id, PoB.id, UnknownId}
PairPages == {[data |-> <<>>, has_more |-> FALSE],
              [data |-> <<TxP, TxQ>>, has_more |-> FALSE]}
PairErrors == {ErrNotFound, ErrManualCode}

InitPair == InitWith({Config(FALSE, 1, 1000)})

NextPair ==
  Tick \/ SingleOps({1, 2}, PairTenants, PairIds, {<<>>}, PairPages, PairErrors)

SpecPair == InitPair /\ [][NextPair]_vars

----------------------------------------------------------------------------
(* One transactions request against an upstream that holds a ledger of
   balance transactions and answers each list call from it *)

\* transactions of payout q around its window [created - 30 days, created + 1 day]
TxQOld == Tx(<<"5">>, <<"q">>, PoB.created - dayInSeconds * 31)
TxQEdge == Tx(<<"6">>, <<"q">>, PoB.created + dayInSeconds * 1)
TxQLate == Tx(<<"7">>, <<"q">>, PoB.created + dayInSeconds * 2)

\* a transaction that references no payout
Filler(i) == Tx(<<"f", ToString(i)>>, Null, 99)

\* how many such transactions the crowded ledger holds ahead of the others
Crowd == 100

\* ledgers, newest transaction first
LedgerSmall == <<TxQLate, TxQEdge, TxNone, TxQ, TxP, TxW, TxQOld>>
LedgerCrowded == [i \in 1..Crowd |-> Filler(i)] \o <<TxQ, TxP>>
Ledgers == {<<>>, LedgerSmall, LedgerCrowded}

\* position of the transaction with the given id in txs, 0 when there is none
IndexOfId(txs, id) ==
  IF \E i \in 1..Len(txs) : txs[i].id = id
  THEN CHOOSE i \in 1..Len(txs) : txs[i].id = id
  ELSE 0

\* the upstream's balanceTransactions.list: the transactions that pass the
\* payout filter and the created range, after the cursor, at most limit of
\* them, has_more telling whether more remain
listBalanceTransactions(ledger, params) ==
  LET passes(tx) ==
        /\ Has(params, "payout") => tx.payout = params.payout
        /\ Has(params, "gte") => tx.created >= params.gte /\ tx.created <= params.lte
      matching == SelectSeq(ledger, passes)
      cursor == IF Has(params, "starting_after") /\ params.starting_after # Undef
                THEN IndexOfId(matching, params.starting_after) ELSE 0
      rest == SubSeq(matching, cursor + 1, Len(matching))
  IN [data |-> SubSeq(rest, 1, Min(Len(rest), params.limit)),
      has_more |-> Len(rest) > params.limit]

\* the call r is waiting on
LastCall(r) == req[r].callLog[Len(req[r].callLog)]

Served(r, ledger) == listBalanceTransactions(ledger, LastCall(r).params)

LedgerTenants == {<<"a">>, <<"b">>}
LedgerErrors == {ErrApi, ErrManualCode}

InitLedger == InitWith(QueryConfigs)

NextLedger ==
  \/ Tick
  \/ \E t \in LedgerTenants, id \in TxIds, q \in TxQueries :
       StartTransactions(1, t, id, q)
  \/ \E po \in UpstreamPayouts : TxRetrieveResolves(1, po)
  \/ \E l \in Ledgers : ManualScanResolves(1, Served(1, l))
  \/ \E l \in Ledgers : DirectResolves(1, Served(1, l))
  \/ \E l \in Ledgers : FallbackScanResolves(1, Served(1, l))
  \/ \E l \in Ledgers : CrossScanResolves(1, Served(1, l))
  \/ \E e \in LedgerErrors : TxRejects(1, e)
  \/ TxTimesOut(1)

SpecLedger == InitLedger /\ [][NextLedger]_vars

----------------------------------------------------------------------------
(* Two listing requests whose queries hold the same parameters in either
   order *)

OrderQueries ==
  { << <<"limit", <<"1">>>>, <<"offset", <<"1">>>> >>,
    << <<"offset", <<"1">>>>, <<"limit", <<"1">>>> >> }
OrderPages == {[data |-> <<PoA, PoA2>>, has_more |-> FALSE],
               [data |-> <<PoA2>>, has_more |-> TRUE]}
OrderSlots == {1, 2}

InitOrder == InitWith({Config(TRUE, 1, 1000)})

NextOrder ==
  \/ Tick
  \/ \E r \in OrderSlots, q \in OrderQueries : StartList(r, <<"a">>, q)
  \/ \E r \in OrderSlots, p \in OrderPages : ListResolves(r, p)
  \/ \E r \in OrderSlots : ListRejects(r, ErrApi)
  \/ \E r \in OrderSlots : ListTimesOut(r)

SpecOrder == InitOrder /\ [][NextOrder]_vars

----------------------------------------------------------------------------
(* The bounded wait: listing requests whose upstream call may settle after
   the timer has already rejected the wait *)

\* the upstream call of r is still in flight although the timer settled the
\* wait: the handler was answered through its catch block with the timer's
\* error, and the call's own .then / .catch has not run yet
Overrunning(r) ==
  /\ req[r].pc = "done"
  /\ Has(resp[r], "cause") /\ resp[r].cause = ErrStripeTimeout
  /\ ~Has(req[r], "late")

\* the overrunning call settles: clearTimeout on the fired timer and
\* resolve / reject on the settled promise do nothing; the handler does not
\* run again
LateSettles(r, outcome) ==
  /\ Overrunning(r)
  /\ req' = [req EXCEPT ![r] = [late |-> outcome] @@ req[r]]
  /\ UNCHANGED <<cfg, now, store, resp>>

LateResolves(r, result) == LateSettles(r, [result |-> result])

LateRejects(r, error) == LateSettles(r, [error |-> error])

WaitSlots == {1, 2}
WaitConfigs == {Config(TRUE, 1, 1000), Config(TRUE, 1, 0)}

InitWait == InitWith(WaitConfigs)

NextWait ==
  \/ Tick
  \/ \E r \in WaitSlots, q \in CacheQueries : StartList(r, <<"a">>, q)
  \/ \E r \in WaitSlots, p \in CachePages : ListResolves(r, p)
  \/ \E r \in WaitSlots, e \in CacheErrors : ListRejects(r, e)
  \/ \E r \in WaitSlots : ListTimesOut(r)
  \/ \E r \in WaitSlots, p \in CachePages : LateResolves(r, p)
  \/ \E r \in WaitSlots, e \in CacheErrors : LateRejects(r, e)

SpecWait == InitWait /\ [][NextWait]_vars

----------------------------------------------------------------------------
(* One request of any of the three operations *)

MatchTenants == QueryTenants \cup TxTenants

InitMatch == InitWith(QueryConfigs)

NextMatch ==
  \/ Tick
  \/ \E t \in MatchTenants, q \in QueryQueries : StartList(1, t, q)
  \/ \E p \in QueryPages : ListResolves(1, p)
  \/ \E e \in QueryErrors : ListRejects(1, e)
  \/ ListTimesOut(1)
  \/ SingleOps({1}, MatchTenants, TxIds, {<<>>}, TxPages, TxErrors)

SpecMatch == InitMatch /\ [][NextMatch]_vars

----------------------------------------------------------------------------
(* The upstream client: new Stripe(key, {timeout, maxNetworkRetries}).  A
   call handed to it is one promise for the handler; underneath, the client
   sends the request again after a transient failure, up to
   maxNetworkRetries times, before the promise settles *)

\* STRIPE_MAX_NETWORK_RETRIES, by default
stripeMaxNetworkRetries == 2

\* the call r awaits, by its position in the call log (the listing keeps no
\* log: its one call is call 1)
Awaited(r) == req[r].calls

\* the calls whose request was sent again, one entry per resend
ResendLog(r) == IF Has(req[r], "resends") THEN req[r].resends ELSE <<>>

Resent(r, call) == Cardinality({i \in 1..Len(ResendLog(r)) : ResendLog(r)[i] = call})

\* a client that allows one resend more than configured
Resend_OnceMore(r) ==
  /\ req[r].pc \notin {"idle", "done"}
  /\ Resent(r, Awaited(r)) < stripeMaxNetworkRetries + 1
  /\ req' = [req EXCEPT ![r] =
               [resends |-> Append(ResendLog(r), Awaited(r))] @@ req[r]]
  /\ UNCHANGED <<cfg, now, store, resp>>

\* the request of the awaited call failed in transit and is sent again; the
\* handler goes on waiting on the same promise
Resend(r) ==
  /\ req[r].pc \notin {"idle", "done"}
  /\ Resent(r, Awaited(r)) < stripeMaxNetworkRetries
  /\ req' = [req EXCEPT ![r] =
               [resends |-> Append(ResendLog(r), Awaited(r))] @@ req[r]]
  /\ UNCHANGED <<cfg, now, store, resp>>

CallsSlots == {1, 2}
CallsIds == {PoA.id, PoU.id}
CallsErrors == {ErrManualCode, ErrApi}

InitCalls == InitWith({Config(TRUE, 1, 1000)})

NextCalls ==
  \/ Tick
  \/ \E r \in CallsSlots : StartList(r, <<"a">>, <<>>)
  \/ \E r \in CallsSlots, p \in CachePages : ListResolves(r, p)
  \/ \E r \in CallsSlots, e \in CallsErrors : ListRejects(r, e)
  \/ \E r \in CallsSlots : ListTimesOut(r)
  \/ SingleOps({1}, {<<"a">>}, CallsIds, {<<>>}, PairPages, CallsErrors)
  \/ \E r \in CallsSlots : Resend(r)

SpecCalls == InitCalls /\ [][NextCalls]_vars

----------------------------------------------------------------------------
(* One transactions request for a payout of every declared type and
   automatic flag *)

ClassPayouts ==
  {Payout(<<"p">>, Undef, <<"a">>, Undef, type, automatic, 100, Undef) :
     type \in {Manual, Automatic}, automatic \in {"true", "false", "missing"}}

InitClass == InitWith(QueryConfigs)

NextClass ==
  \/ Tick
  \/ \E q \in TxQueries : StartTransactions(1, <<"a">>, <<"p">>, q)
  \/ \E po \in ClassPayouts : TxRetrieveResolves(1, po)
  \/ \E txs \in TxPages : ManualScanResolves(1, txs)
  \/ \E txs \in TxPages : DirectResolves(1, txs)
  \/ \E txs \in TxPages : FallbackScanResolves(1, txs)
  \/ \E txs \in TxPages : CrossScanResolves(1, txs)
  \/ \E e \in TxErrors : TxRejects(1, e)
  \/ TxTimesOut(1)

SpecClass == InitClass /\ [][NextClass]_vars

----------------------------------------------------------------------------
(* One listing request over the values of limit, offset and the cursor *)

LimitValues ==
  {Undef, <<>>, <<"0">>, <<"1">>, <<"7">>, <<"1", "0", "0">>, <<"1", "0", "1">>,
   <<"-", "3">>, <<"x">>, <<"1", "2", "a">>, <<" ", "7">>}
OffsetValues ==
  {Undef, <<"0">>, <<"1">>, <<"9", "3">>, <<"9", "9">>, <<"2", "5", "0">>,
   <<"-", "1">>, <<"x">>}
CursorValues == {Undef, <<"p">>}

\* the query string with the parameters that are present
QueryOf(limit, offset, cursor) ==
  (IF limit = Undef THEN <<>> ELSE << <<"limit", limit>> >>)
    \o (IF offset = Undef THEN <<>> ELSE << <<"offset", offset>> >>)
    \o (IF cursor = Undef THEN <<>> ELSE << <<"starting_after", cursor>> >>)

PageQueries ==
  {QueryOf(l, o, c) : l \in LimitValues, o \in OffsetValues, c \in CursorValues}

InitPage == InitWith({Config(TRUE, 1, 1000)})

NextPage ==
  \/ Tick
  \/ \E q \in PageQueries : StartList(1, <<"a">>, q)
  \/ \E p \in QueryPages : ListResolves(1, p)
  \/ ListRejects(1, ErrApi)
  \/ ListTimesOut(1)

SpecPage == InitPage /\ [][NextPage]_vars

----------------------------------------------------------------------------
(* Two listing requests of one authenticated tenant with and without the
   tenantId parameter *)

OverrideQueries ==
  { <<>>,
    << <<"tenantId", <<"b">>>> >>,
    << <<"tenantId", <<"A">>>> >>,
    << <<"tenantId", <<" ">>>> >> }
OverridePages == {[data |-> <<PoA, PoB>>, has_more |-> FALSE],
                  [data |-> <<PoU, PoA2>>, has_more |-> TRUE]}
OverrideSlots == {1, 2}

InitOverride == InitWith(QueryConfigs)

NextOverride ==
  \/ Tick
  \/ \E r \in OverrideSlots, q \in OverrideQueries : StartList(r, <<"a">>, q)
  \/ \E r \in OverrideSlots, p \in OverridePages : ListResolves(r, p)
  \/ \E r \in OverrideSlots : ListRejects(r, ErrApi)
  \/ \E r \in OverrideSlots : ListTimesOut(r)

SpecOverride == InitOverride /\ [][NextOverride]_vars

----------------------------------------------------------------------------
(* Requests against an upstream that may never answer: the clock runs while
   a call is awaited, a timer that is due fires before the clock moves on,
   and nothing obliges the upstream to settle a call *)

Waiting(r) == req[r].pc \notin {"idle", "done"}

\* time passes while some call is awaited and no timer is due
TickLive ==
  /\ \E r \in Slots : Waiting(r)
  /\ \A r \in Slots : ~TimerDue(r)
  /\ now' = now + MsPerSecond
  /\ UNCHANGED <<cfg, store, req, resp>>

LiveSlots == {1, 2}

InitLive == InitWith({Config(TRUE, 1, 1000)})

NextLive ==
  \/ TickLive
  \/ \E r \in LiveSlots : StartList(r, <<"a">>, <<>>)
  \/ \E r \in LiveSlots, p \in CachePages : ListResolves(r, p)
  \/ \E r \in LiveSlots, e \in CallsErrors : ListRejects(r, e)
  \/ \E r \in LiveSlots : ListTimesOut(r)
  \/ SingleOps(LiveSlots, {<<"a">>}, CallsIds, {<<>>}, PairPages, CallsErrors)

\* the event loop runs every timer that is due; the upstream owes nothing
SpecLive ==
  /\ InitLive /\ [][NextLive]_vars
  /\ WF_vars(TickLive)
  /\ \A r \in LiveSlots :
       /\ WF_vars(ListTimesOut(r))
       /\ WF_vars(DetailTimesOut(r))
       /\ WF_vars(TxTimesOut(r))

----------------------------------------------------------------------------
(* Two listing requests whose tenant headers may differ in case or blanks *)

HeaderTenants == {<<"a">>, <<"A">>, <<"a", " ">>, <<"b">>}
HeaderSlots == {1, 2}

InitHeader == InitWith(QueryConfigs)

NextHeader ==
  \/ Tick
  \/ \E r \in HeaderSlots, t \in HeaderTenants : StartList(r, t, <<>>)
  \/ \E r \in HeaderSlots, p \in OverridePages : ListResolves(r, p)
  \/ \E r \in HeaderSlots : ListRejects(r, ErrApi)
  \/ \E r \in HeaderSlots : ListTimesOut(r)

SpecHeader == InitHeader /\ [][NextHeader]_vars

----------------------------------------------------------------------------
(* Requests under every kind of upstream bound: none, zero, negative and
   positive; nothing obliges the upstream to settle a call *)

BoundConfigs ==
  {ConfigWithoutBound(TRUE, 1), Config(TRUE, 1, 0),
   Config(TRUE, 1, 0 - 1000), Config(TRUE, 1, 1000)}

BoundSlots == {1, 2}
BoundErrors == {ErrManualCode, ErrApi, ErrEtimedout}

InitBound == InitWith(BoundConfigs)

NextBound ==
  \/ Tick
  \/ \E r \in BoundSlots : StartList(r, <<"a">>, <<>>)
  \/ \E r \in BoundSlots, p \in CachePages : ListResolves(r, p)
  \/ \E r \in BoundSlots, e \in BoundErrors : ListRejects(r, e)
  \/ \E r \in BoundSlots : ListTimesOut(r)
  \/ SingleOps({1}, {<<"a">>}, CallsIds, {<<>>}, PairPages, BoundErrors)

SpecBound == InitBound /\ [][NextBound]_vars

----------------------------------------------------------------------------
(* Properties of the listing engine *)


ListDone(r) == req[r].op = "list" /\ req[r].pc = "done"
Fresh(r) == ListDone(r) /\ resp[r].kind = "fresh"
Hit(r) == ListDone(r) /\ resp[r].kind = "hit"
Degraded(r) == ListDone(r) /\ resp[r].kind = "degraded"

\* the failures the bounded wait and the transport produce
TimeoutClass ==
  {ErrStripeTimeout, ErrEtimedout, ErrConnReset, ErrFetchFailed, ErrHeaders}

\* the four payload fields of a response body
PayloadOf(body) ==
  [success |-> body.success, data |-> body.data,
   total_count |-> body.total_count, has_more |-> body.has_more]

\* expiresAt of the entry a fresh response wrote
WroteExpiresAt(r) ==
  IF cfg.cacheTtlSeconds = 0 THEN NeverExpires
  ELSE resp[r].wroteAt + cfg.cacheTtlSeconds * MsPerSecond

PastExpiry(at, expiresAt) == expiresAt # NeverExpires /\ at > expiresAt

\* C4: after a successful query populated the cache, a later identical
\* query whose upstream call times out returns the stored payload annotated
\* cached=true, stale=true, reason stripe_timeout.
C4_StaleFallback ==
  \A r1, r2 \in Slots :
    ( /\ Fresh(r1) /\ Degraded(r2)
      /\ req[r1].key = req[r2].key
      /\ req[r2].lookup # "skipped"
      /\ req[r2].started = {r1}
      /\ resp[r2].cause \in TimeoutClass )
    => /\ resp[r2].status = 200
       /\ resp[r2].body =
            [cached |-> TRUE, stale |-> TRUE, error |-> "stripe_timeout"]
              @@ resp[r1].body

\* C5: with no cache entry for the key, a timeout of the upstream call is
\* answered by exactly the empty success payload.
C5_EmptyOnTimeout ==
  \A r \in Slots :
    (Degraded(r) /\ ~req[r].entryAtStart /\ resp[r].cause \in TimeoutClass)
    => /\ resp[r].status = 200
       /\ resp[r].body =
            [success |-> TRUE, data |-> <<>>, total_count |-> 0,
             has_more |-> FALSE, cached |-> FALSE, stale |-> TRUE,
             error |-> "stripe_timeout"]

C5_Witness ==
  \E r \in Slots :
    /\ Degraded(r) /\ ~req[r].entryAtStart
    /\ resp[r].cause = ErrStripeTimeout
    /\ \E s \in Slots : Fresh(s) /\ s \in req[r].started

\* the second query of C6: same key, no refresh, issued after r1 was
\* answered and not after the expiresAt of the entry r1 wrote
Repeats(r1, r2) ==
  /\ Fresh(r1) /\ ListDone(r2)
  /\ req[r1].key = req[r2].key
  /\ req[r2].lookup # "skipped"
  /\ r1 \in req[r2].started
  /\ ~PastExpiry(req[r2].startedAt, WroteExpiresAt(r1))

\* another request with the key wrote the entry between r1 and r2
Overwritten(r1, r2) ==
  \E r3 \in Slots \ {r1} :
    /\ Fresh(r3) /\ req[r3].key = req[r1].key
    /\ r1 \in resp[r3].after
    /\ r3 \in req[r2].started

ServedAs(r1, r2) ==
  /\ resp[r2].kind = "hit"
  /\ req[r2].calls = 0
  /\ Flag(resp[r2].body, "cached")
  /\ resp[r2].body.data = resp[r1].body.data

\* C6 as stated: the second of two identical queries within the TTL
\* returns the first one's data, cached=true, without an upstream call.
C6_Idempotent == \A r1, r2 \in Slots : Repeats(r1, r2) => ServedAs(r1, r2)

\* C6 amended: the same, provided no other request with the same key
\* completed its own upstream fetch between the two.
C6_IdempotentUnlessOverwritten ==
  \A r1, r2 \in Slots :
    (Repeats(r1, r2) /\ ~Overwritten(r1, r2)) => ServedAs(r1, r2)

C6_Witness ==
  \E r1, r2 \in Slots :
    /\ Repeats(r1, r2) /\ ~Overwritten(r1, r2)
    /\ req[r2].startedAt = WroteExpiresAt(r1)
    /\ resp[r1].body.data # <<>>

\* the lookup made by the request that starts in this step
Looks(r) ==
  /\ req[r].pc = "idle" /\ req'[r].pc # "idle"
  /\ req'[r].op = "list" /\ req'[r].lookup # "skipped"
  /\ req'[r].key \in DOMAIN store

\* C7: a lookup strictly after expiresAt returns absent, removes the entry
\* and the request goes on to an upstream fetch; a lookup at or before
\* expiresAt returns the stored value and leaves the entry in place.
C7_LazyExpiry ==
  [][\A r \in Slots :
       Looks(r) =>
         LET k == req'[r].key
         IN IF PastExpiry(now, store[k].expiresAt)
            THEN /\ k \notin DOMAIN store'
                 /\ req'[r].cachedPayload = NoPayload
                 /\ req'[r].pc = "wait" /\ req'[r].calls = 1
            ELSE /\ store' = store
                 /\ req'[r].cachedPayload = store[k].value
                 /\ req'[r].calls = 0]_vars

C7_Witness ==
  /\ \E r \in Slots : ListDone(r) /\ req[r].lookup = "expired"
  /\ \E r \in Slots : /\ Hit(r)
                      /\ req[r].startedAt = req[r].entryExpiresAt

\* C8: a response read from an entry past its expiresAt is annotated
\* stale=true with a reason; a response with cached=true and without
\* stale=true comes from an entry that is not past its expiresAt.
C8_NeverSilentlyStale ==
  \A r \in Slots :
    ListDone(r) /\ resp[r].status = 200 /\ Flag(resp[r].body, "cached") =>
      /\ req[r].entryAtStart
      /\ PastExpiry(req[r].startedAt, req[r].entryExpiresAt)
           => Flag(resp[r].body, "stale") /\ Has(resp[r].body, "error")
      /\ ~Flag(resp[r].body, "stale")
           => /\ req[r].lookup = "hit"
              /\ ~PastExpiry(req[r].startedAt, req[r].entryExpiresAt)

C8_Witness ==
  \E r \in Slots :
    /\ Hit(r) /\ Flag(resp[r].body, "cached") /\ ~Flag(resp[r].body, "stale")
    /\ req[r].entryExpiresAt # NeverExpires
    /\ \E s \in Slots : ListDone(s) /\ req[s].lookup = "expired"

----------------------------------------------------------------------------
(* Properties of one listing request (SpecQuery) *)

InData(payout, body) == \E k \in 1..Len(body.data) : body.data[k].id = payout.id

\* C1: a listing response never holds a payout attributed to a tenant
\* other than the normalized authenticated tenant, whatever the query.
C1_TenantIsolation ==
  \A r \in Slots :
    (ListDone(r) /\ resp[r].status = 200 /\ normalizeTenant(req[r].tenant) # Null)
    => \A k \in 1..Len(resp[r].body.data) :
         LET t == attributedTenant(resp[r].body.data[k])
         IN t # Null => t = normalizeTenant(req[r].tenant)

\* the records of the fetched page left by the offset skip
Skipped(r) == afterOffset(req[r].query, resp[r].page.data)

\* record i survives every filter of the request
Survives(r, i) ==
  payoutFilter(Skipped(r)[i], req[r].tenant, req[r].query,
               cfg.allowUnattributedPayouts)

\* C2: an unattributed payout that passes the type and search filters and
\* has fewer than `limit` surviving records before it is in a fresh
\* response iff allowUnattributed is true.
C2_UnattributedIffAllowed ==
  \A r \in Slots :
    (Fresh(r) /\ normalizeTenant(req[r].tenant) # Null)
    => \A i \in 1..Len(Skipped(r)) :
         LET p == Skipped(r)[i]
         IN ( /\ attributedTenant(p) = Null
              /\ typeMatches(p, Param(req[r].query, "type"))
              /\ searchMatches(p, searchOf(req[r].query))
              /\ Cardinality({j \in 1..(i - 1) : Survives(r, j)})
                   < parseLimit(Param(req[r].query, "limit")) )
            => (InData(p, resp[r].body) <=> cfg.allowUnattributedPayouts)

\* C3: whatever makes the upstream list call fail, the listing answers
\* success=true, stale=true, with reason stripe_timeout for the timeout
\* class and stripe_error for everything else.
C3_AlwaysDegrades ==
  \A r \in Slots :
    Degraded(r)
    => /\ resp[r].status = 200
       /\ Flag(resp[r].body, "success")
       /\ Flag(resp[r].body, "stale")
       /\ resp[r].body.error =
            IF resp[r].cause \in TimeoutClass THEN "stripe_timeout" ELSE "stripe_error"

C3_Witness ==
  \E r \in Slots :
    /\ Degraded(r) /\ resp[r].cause = ErrRateLimit
    /\ resp[r].body.error = "stripe_error"

----------------------------------------------------------------------------
(* Properties of one single-payout request (SpecTx) *)

Single(r) == req[r].op \in {"detail", "tx"}

\* the payout the upstream holds under the requested id is attributed to a
\* tenant other than the (non-empty) normalized authenticated tenant
Mismatched(r) ==
  /\ Single(r)
  /\ normalizeTenant(req[r].tenant) # Null
  /\ \E po \in UpstreamPayouts :
       /\ po.id = req[r].id
       /\ attributedTenant(po) # Null
       /\ attributedTenant(po) # normalizeTenant(req[r].tenant)

\* the retrieve call of r resolved with the payout (no failure was caught)
Retrieved(r) == req[r].pc = "done" /\ ~Has(resp[r], "cause")

\* C9: a detail or transactions request for a payout whose attributed tenant
\* differs from the normalized authenticated tenant is answered 404 once the
\* payout is retrieved, its body never carries the payout or a transaction,
\* and no balance-transaction call is ever issued for it.
C9_MismatchIsNotFound ==
  \A r \in Slots :
    Mismatched(r) =>
      /\ req[r].pc \in {"retrieve", "done"}
      /\ req[r].calls = 1
      /\ \A i \in 1..Len(req[r].callLog) : req[r].callLog[i].fn = "payouts.retrieve"
      /\ req[r].pc = "done" =>
           /\ ~Has(resp[r].body, "payout")
           /\ Has(resp[r].body, "data") => resp[r].body.data = <<>>
           /\ Retrieved(r) => /\ resp[r].status = 404
                              /\ DOMAIN resp[r].body = {"error"}

\* a transactions request of tenant "B" (normalized "b") for the payout of
\* tenant "a" was refused after the payout was retrieved
C9_Witness ==
  \E r \in Slots :
    /\ Mismatched(r) /\ Retrieved(r)
    /\ req[r].op = "tx" /\ req[r].tenant = <<"B">> /\ req[r].id = PoA.id
    /\ resp[r].kind = "mismatch" /\ resp[r].status = 404

----------------------------------------------------------------------------
(* Properties of two single-payout requests (SpecPair) *)

\* r was refused because the retrieved payout belongs to another tenant
RefusedForTenant(r) ==
  /\ Mismatched(r) /\ Retrieved(r)
  /\ resp[r].kind = "mismatch"

\* r asked for an id the upstream does not know, and the retrieve call failed
\* with the upstream's not-found status
RefusedAsUnknown(r) ==
  /\ Single(r) /\ req[r].pc = "done"
  /\ req[r].id = UnknownId /\ req[r].calls = 1
  /\ resp[r].kind = "notfound" /\ resp[r].cause = ErrNotFound

\* C10: for the same operation, the response to a request for another
\* tenant's payout has the same status and body as the response to a request
\* for an id that does not exist upstream.
C10_Indistinguishable ==
  \A r1, r2 \in Slots :
    (/\ RefusedForTenant(r1) /\ RefusedAsUnknown(r2)
     /\ req[r1].op = req[r2].op)
    => /\ resp[r1].status = resp[r2].status
       /\ resp[r1].body = resp[r2].body

----------------------------------------------------------------------------
(* Error handling of the single-payout operations (SpecTx) *)

\* the failures with which the upstream declares that balance transactions
\* cannot be filtered by a manual payout
ManualFilteringErrors == {ErrManualCode, ErrManualMsg}

\* r is answered, and the last failure its handler caught is error
CaughtLast(r, error) ==
  /\ Single(r) /\ req[r].pc = "done"
  /\ Has(resp[r], "cause") /\ resp[r].cause = error

\* a timeout or an upstream error that is neither not-found nor the
\* manual-filtering condition
Unclassified(error) ==
  /\ error.statusCode # 404
  /\ error \notin ManualFilteringErrors

IsErrorResponse(response) == response.status >= 400

\* C11: in the detail and the transactions operation, a timeout or any other
\* unclassified upstream error raised by any upstream call of the request
\* gives an error response, never a success response.
C11_ErrorsSurface ==
  \A r \in Slots :
    \A error \in TxErrors \cup {ErrStripeTimeout} :
      (CaughtLast(r, error) /\ Unclassified(error))
      => IsErrorResponse(resp[r])

\* C12: when a balance-transaction call of the transactions handler fails
\* with the manual-filtering condition (whether it is the first call, caught
\* and followed by a scan, or a later scan), the request ends in a success
\* response carrying data, never in an error response.
C12_ManualFilteringRecovered ==
  \A r \in Slots :
    (/\ req[r].op = "tx" /\ req[r].pc = "done"
     /\ \/ \E error \in ManualFilteringErrors :
             CaughtLast(r, error) /\ req[r].calls >= 2
        \/ Has(req[r], "caught"))
    => /\ resp[r].status = 200
       /\ Has(resp[r].body, "data")

\* the scan of a manual payout was refused with the condition, declared by
\* its message only, and the request was answered with the empty success
C12_Witness ==
  \E r \in Slots :
    /\ CaughtLast(r, ErrManualMsg)
    /\ req[r].op = "tx" /\ req[r].calls = 2
    /\ isManualPayout(req[r].payout)
    /\ resp[r].status = 200 /\ resp[r].body = EmptyResult

----------------------------------------------------------------------------
(* Properties of the transaction resolution against a ledger (SpecLedger) *)

Range(s) == {s[i] : i \in 1..Len(s)}

\* the transactions of the ledger that reference the payout and were created
\* within [created - daysBefore, created + daysAfter]
Referenced(ledger, payout, daysBefore, daysAfter) ==
  {tx \in Range(ledger) :
     /\ tx.payout = payout.id
     /\ tx.created >= payout.created - dayInSeconds * daysBefore
     /\ tx.created <= payout.created + dayInSeconds * daysAfter}

\* r passed the tenant check and was answered from the upstream's results
TxAnswered(r) ==
  /\ req[r].op = "tx" /\ req[r].pc = "done"
  /\ Has(req[r], "payout")
  /\ resp[r].kind = "ok" /\ ~Has(resp[r], "cause")

\* C13: for a payout with automatic=false that passes the tenant check, the
\* transactions returned are exactly the transactions of the upstream's ledger
\* that reference the payout id and were created within
\* [created - 30 days, created + 1 day], however many other transactions the
\* window holds.
C13_ManualExactSet ==
  \A r \in Slots :
    (/\ TxAnswered(r)
     /\ req[r].payout.automatic = "false"
     /\ Has(resp[r], "scanned"))
    => \A l \in Ledgers :
         resp[r].scanned
           = listBalanceTransactions(l, ScanCall(req[r].payout, 30, 1).params)
         => /\ resp[r].status = 200
            /\ Range(resp[r].body.data) = Referenced(l, req[r].payout, 30, 1)

----------------------------------------------------------------------------
(* Properties of the automatic path (SpecTx) *)

\* r is answered, its payout was classified automatic and the direct
\* payout-filter call resolved with at least one transaction
DirectSucceeded(r) ==
  /\ req[r].op = "tx" /\ req[r].pc = "done"
  /\ Has(req[r], "payout") /\ ~isManualPayout(req[r].payout)
  /\ Has(resp[r], "direct")
  /\ resp[r].direct.data # NoData /\ Len(resp[r].direct.data) >= 1

\* C14: for a payout classified automatic whose direct payout-filter call
\* succeeds with at least one transaction, the request makes no date-range
\* scan call (its only calls are the retrieve and the direct call) and the
\* response is exactly the direct call's data and has_more.
C14_DirectSuccessNoScan ==
  \A r \in Slots :
    DirectSucceeded(r) =>
      /\ req[r].calls = 2 /\ Len(req[r].callLog) = 2
      /\ req[r].callLog[1].fn = "payouts.retrieve"
      /\ req[r].callLog[2] = DirectCall(req[r].id, req[r].query)
      /\ resp[r].status = 200
      /\ resp[r].body = [data |-> resp[r].direct.data,
                         has_more |-> resp[r].direct.has_more]

\* the direct call of an automatic payout returned several transactions and
\* more remain
C14_Witness ==
  \E r \in Slots :
    /\ DirectSucceeded(r)
    /\ Len(resp[r].direct.data) >= 2 /\ resp[r].direct.has_more
    /\ resp[r].body.has_more /\ req[r].payout.created # 0

----------------------------------------------------------------------------
(* Properties of the offset skip (SpecQuery) *)

\* how many leading records of the fetched page the request must skip
SkipCount(r) ==
  IF hasCursor(req[r].query) THEN 0 ELSE parseOffset(Param(req[r].query, "offset"))

\* positions of the fetched page, in upstream order, that lie after the
\* skipped ones and pass the tenant, type and search filters
KeptPositions(r) ==
  {i \in (SkipCount(r) + 1)..Len(resp[r].page.data) :
     payoutFilter(resp[r].page.data[i], req[r].tenant, req[r].query,
                  cfg.allowUnattributedPayouts)}

\* the j-th smallest element of a set of positions
Nth(S, j) == CHOOSE i \in S : Cardinality({k \in S : k < i}) = j - 1

\* C15: a fresh listing response holds, in upstream order and up to limit,
\* the records of the fetched page that pass the filters, counted after
\* exactly the first offset records were removed when no cursor is present,
\* and with no record removed when a cursor is present.
C15_OffsetSkip ==
  \A r \in Slots :
    Fresh(r) =>
      LET kept == KeptPositions(r)
          n == Min(Cardinality(kept), parseLimit(Param(req[r].query, "limit")))
      IN /\ Len(resp[r].body.data) = n
         /\ \A j \in 1..n :
              resp[r].body.data[j]
                = shapePayoutForResponse(resp[r].page.data[Nth(kept, j)])

\* offset=1 without a cursor: the first fetched record, which passes every
\* filter, is left out and the second one is returned
C15_Witness ==
  \E r \in Slots :
    /\ Fresh(r) /\ Len(resp[r].page.data) = 2
    /\ parseOffset(Param(req[r].query, "offset")) = 1
    /\ payoutFilter(resp[r].page.data[1], req[r].tenant, req[r].query,
                    cfg.allowUnattributedPayouts)
    /\ ~hasCursor(req[r].query)
    /\ Len(resp[r].body.data) = 1
    /\ resp[r].body.data[1].id = resp[r].page.data[2].id

----------------------------------------------------------------------------
(* Properties of the cache key (SpecOrder) *)

\* the name/value pairs of a query, without their order
ParamSet(q) == {q[i] : i \in 1..Len(q)}

\* r2 was issued after r1 was answered from the upstream, not after the
\* expiry of the entry r1 wrote, with r1's tenant and r1's set of parameters
SameParamsWithinTtl(r1, r2) ==
  /\ Fresh(r1) /\ req[r2].op = "list" /\ r1 \in req[r2].started
  /\ req[r1].tenant = req[r2].tenant
  /\ ParamSet(req[r1].query) = ParamSet(req[r2].query)
  /\ Param(req[r2].query, "refresh") # True
  /\ ~PastExpiry(req[r2].startedAt, WroteExpiresAt(r1))

\* C16: two listing requests with the same tenant, route and set of query
\* parameters have the same cache key whatever the order of the parameters,
\* so the second, issued within the TTL of the entry the first wrote, is
\* served from that entry without an upstream call.
C16_KeyIgnoresOrder ==
  \A r1, r2 \in Slots :
    SameParamsWithinTtl(r1, r2)
    => /\ req[r2].key = req[r1].key
       /\ req[r2].lookup = "hit" /\ req[r2].calls = 0

----------------------------------------------------------------------------
(* Properties of refresh (Spec) *)

Refreshing(r) ==
  /\ req[r].op = "list"
  /\ Param(req[r].query, "refresh") = True

\* a refreshing request made no cache lookup, issued its upstream call, and
\* its response, fresh or degraded, is not annotated cached=true
RefreshSkipsLookup ==
  \A r \in Slots :
    Refreshing(r) =>
      /\ req[r].lookup = "skipped"
      /\ req[r].cachedPayload = NoPayload
      /\ req[r].calls = 1
      /\ req[r].pc = "done" =>
           /\ resp[r].kind \in {"fresh", "degraded"}
           /\ ~Flag(resp[r].body, "cached")

\* the step in which a refreshing request gets its upstream result writes
\* the payload it answers with under its key, with the configured TTL
RefreshWrites ==
  \A r \in Slots :
    (/\ Refreshing(r) /\ req[r].pc = "wait"
     /\ req'[r].pc = "done" /\ resp'[r].kind = "fresh")
    => /\ req[r].key \in DOMAIN store'
       /\ store'[req[r].key].value = resp'[r].body
       /\ store'[req[r].key].expiresAt
            = IF cfg.cacheTtlSeconds = 0 THEN NeverExpires
              ELSE now + cfg.cacheTtlSeconds * MsPerSecond

\* C17: a listing request with refresh=true never reads the cache: it always
\* issues an upstream call, even when an unexpired entry exists for its key,
\* its response is never annotated cached=true (also when the upstream call
\* fails), and on upstream success it writes its payload to the cache with
\* the configured TTL.
C17_RefreshBypassesCache == []RefreshSkipsLookup /\ [][RefreshWrites]_vars

\* a refreshing request found an unexpired entry under its key, written by
\* an earlier request, called the upstream all the same, and the call failed
C17_Witness ==
  \E r1, r2 \in Slots :
    /\ Fresh(r1) /\ Refreshing(r1)
    /\ Degraded(r2) /\ Refreshing(r2)
    /\ req[r2].key = req[r1].key /\ r1 \in req[r2].started
    /\ req[r2].entryAtStart
    /\ ~PastExpiry(req[r2].startedAt, WroteExpiresAt(r1))
    /\ req[r2].calls = 1 /\ ~Flag(resp[r2].body, "cached")

----------------------------------------------------------------------------
(* Properties of a cache without expiry (Spec) *)

\* times at which an entry may be looked up: now, each later tick of the
\* clock, and a week from now
LookupTimes ==
  {now + i * MsPerSecond : i \in 0..(MaxTicks + 1)}
    \cup {now + MsPerSecond * dayInSeconds * 7}

\* with a TTL of 0 every entry was stored without an expiry time, and a get
\* at any time returns its value and leaves the store as it is
EntriesNeverExpire ==
  cfg.cacheTtlSeconds = 0 =>
    \A k \in DOMAIN store :
      /\ store[k].expiresAt = NeverExpires
      /\ \A at \in LookupTimes :
           /\ cacheGet(store, k, at) = store[k].value
           /\ cacheGetStore(store, k, at) = store

\* with a TTL of 0, a request without refresh issued after a successful
\* request with the same key is served from the cache, whenever it comes
ServedIndefinitely ==
  cfg.cacheTtlSeconds = 0 =>
    \A r1, r2 \in Slots :
      (/\ Fresh(r1) /\ req[r2].op = "list"
       /\ req[r2].key = req[r1].key /\ r1 \in req[r2].started
       /\ req[r2].lookup # "skipped")
      => /\ req[r2].lookup = "hit" /\ req[r2].calls = 0
         /\ Hit(r2) /\ Flag(resp[r2].body, "cached")

\* with a TTL of 0 no step removes an entry (the handlers call neither
\* delete nor clear): an entry changes only by being overwritten
EntriesStay == cfg.cacheTtlSeconds = 0 => DOMAIN store \subseteq DOMAIN store'

\* C18: set with a ttlSeconds of 0 stores an entry that never expires: every
\* later get, at any time, returns its value until the key is overwritten;
\* so a configured cache TTL of 0 makes every listing result be served from
\* the cache indefinitely.
C18_ZeroTtlNeverExpires ==
  /\ []EntriesNeverExpire
  /\ []ServedIndefinitely
  /\ [][EntriesStay]_vars

\* TTL 0: a request was served from the entry an earlier request wrote two
\* seconds before
C18_Witness ==
  \E r1, r2 \in Slots :
    /\ cfg.cacheTtlSeconds = 0
    /\ Fresh(r1) /\ Hit(r2) /\ r1 \in req[r2].started
    /\ req[r2].key = req[r1].key
    /\ req[r2].startedAt >= resp[r1].wroteAt + 2 * MsPerSecond
    /\ resp[r2].body.data = resp[r1].body.data

----------------------------------------------------------------------------
(* Properties of the bounded wait (SpecWait) *)

\* the wait of r is settled in this step
Settles(r) == req[r].pc = "wait" /\ req'[r].pc = "done"

\* a wait is settled once: the response of an answered request never changes
\* and the request does not wait again
SettledOnce ==
  \A r \in Slots :
    req[r].pc = "done" => req'[r].pc = "done" /\ resp'[r] = resp[r]

\* the timer settles a wait only when a positive bound is configured and has
\* elapsed, and then the handler gets the failure with code STRIPE_TIMEOUT;
\* otherwise the handler gets the upstream's own result or error
SettledByFirst ==
  \A r \in Slots :
    Settles(r) =>
      IF Has(resp'[r], "cause") /\ resp'[r].cause.code = "STRIPE_TIMEOUT"
      THEN /\ cfg.stripeTimeoutMs > 0
           /\ now >= req[r].callStart + cfg.stripeTimeoutMs
           /\ resp'[r].cause = ErrStripeTimeout
      ELSE \/ /\ resp'[r].kind = "fresh" /\ resp'[r].page \in CachePages
              /\ resp'[r].body.has_more = resp'[r].page.has_more
           \/ resp'[r].kind = "degraded" /\ resp'[r].cause \in CacheErrors

\* a result or error that arrives after the timer settled the wait changes
\* neither the cache nor any response
LateDiscarded ==
  \A r \in Slots :
    (Overrunning(r) /\ Has(req'[r], "late"))
    => store' = store /\ resp' = resp

\* C19: the bounded wait settles exactly once, with whichever of the upstream
\* call and the timer finishes first: when the timer does, the handler gets a
\* failure with code STRIPE_TIMEOUT and the upstream's later result or error
\* is discarded (a late listing success is neither written to the cache nor
\* sent); when the upstream call does, its result or error is what the
\* handler gets and the timer does not fire afterwards.
C19_SettlesOnce ==
  /\ [][SettledOnce]_vars
  /\ [][SettledByFirst]_vars
  /\ [][LateDiscarded]_vars

\* the timer answered a request; afterwards its upstream call resolved with
\* a page, and the cache holds no entry for the request's key
C19_Witness ==
  \E r \in Slots :
    /\ Degraded(r) /\ resp[r].cause = ErrStripeTimeout
    /\ Has(req[r], "late") /\ Has(req[r].late, "result")
    /\ req[r].late.result.data # <<>>
    /\ req[r].key \notin DOMAIN store

----------------------------------------------------------------------------
(* The tenant match against its reference (SpecMatch) *)

RefLower(c) ==
  CASE c = "A" -> "a" [] c = "B" -> "b" [] c = "P" -> "p" [] c = "Q" -> "q"
    [] OTHER -> c

\* the reference normalization: surrounding blanks removed, letters lowered;
\* empty for an absent or blank value
RefNormalize(v) ==
  IF v = Undef THEN <<>>
  ELSE LET solid == {i \in 1..Len(v) : v[i] # " "}
       IN IF solid = {} THEN <<>>
          ELSE LET first == CHOOSE i \in solid : \A j \in solid : i <= j
                   last == CHOOSE i \in solid : \A j \in solid : i >= j
               IN [j \in 1..(last - first + 1) |-> RefLower(v[first + j - 1])]

\* the first of metadata.tenantId, metadata.tenant that normalizes to a
\* non-empty value
RefAttributed(payout) ==
  IF RefNormalize(payout.md_tenantId) # <<>> THEN RefNormalize(payout.md_tenantId)
  ELSE RefNormalize(payout.md_tenant)

\* the reference match of section 4.2
RefMatches(payout, requestingTenant, allowUnattributed) ==
  IF RefNormalize(requestingTenant) = <<>> THEN TRUE
  ELSE IF RefAttributed(payout) # <<>>
  THEN RefAttributed(payout) = RefNormalize(requestingTenant)
  ELSE allowUnattributed

\* the payout the upstream holds under the id r asked for
Held(r) == CHOOSE po \in UpstreamPayouts : po.id = req[r].id

\* the listing keeps, of the fetched page after the offset skip, the records
\* that the reference matches against the tenant filter and that pass the
\* type and search filters, up to limit
ListingMatchesRef ==
  \A r \in Slots :
    Fresh(r) =>
      LET q == req[r].query
          Keep(po) ==
            /\ RefMatches(po, tenantFilterOf(req[r].tenant, q),
                          cfg.allowUnattributedPayouts)
            /\ typeMatches(po, Param(q, "type"))
            /\ searchMatches(po, searchOf(q))
          kept == sliceTo(SelectSeq(Skipped(r), Keep), parseLimit(Param(q, "limit")))
      IN resp[r].body.data
           = [i \in 1..Len(kept) |-> shapePayoutForResponse(kept[i])]

\* the detail and the transactions operation refuse the retrieved payout
\* exactly when the reference does not match it against the header's tenant
SingleMatchesRef ==
  \A r \in Slots :
    (Single(r) /\ req[r].id # UnknownId) =>
      LET ref == RefMatches(Held(r), req[r].tenant, cfg.allowUnattributedPayouts)
      IN /\ (req[r].pc = "done" /\ resp[r].kind = "mismatch") => ~ref
         /\ (req[r].pc = "done" /\ req[r].op = "detail" /\ resp[r].kind = "ok") => ref
         /\ Has(req[r], "payout") => ref

\* the functions the handlers apply agree with the reference on every
\* payout, tenant and policy
FunctionsMatchRef ==
  \A po \in UpstreamPayouts, t \in MatchTenants \cup {Undef}, allow \in BOOLEAN :
    /\ tenantMatches(po, normalizeTenant(t), allow) = RefMatches(po, t, allow)
    /\ tenantAllowed(po, normalizeTenant(t), allow) = RefMatches(po, t, allow)

\* C20: the tenant match applied by the listing, the detail and the
\* transactions operation equals the reference: a requesting tenant that
\* normalizes to empty matches everything; otherwise a record with an
\* attributed tenant matches iff that tenant equals the normalized
\* requesting tenant, and a record without one matches iff allowUnattributed.
C20_TenantMatchIsReference ==
  /\ ListingMatchesRef
  /\ SingleMatchesRef
  /\ FunctionsMatchRef

\* tenant "B" was given the payout whose legacy key reads " B", and was
\* given it by the detail operation
C20_Witness ==
  \E r \in Slots :
    /\ req[r].op = "detail" /\ req[r].pc = "done"
    /\ req[r].tenant = <<"B">> /\ req[r].id = PoB.id
    /\ PoB.md_tenant = <<" ", "B">>
    /\ resp[r].kind = "ok" /\ resp[r].body.payout = PoB

----------------------------------------------------------------------------
(* The manual-filtering condition on the first balance-transaction call
   (SpecTx) *)

\* the direct call of r was refused with the manual-filtering condition
DirectRefused(r) == req[r].op = "tx" /\ Has(req[r], "caught")

\* the scan of a payout classified manual was refused with the condition
ManualScanRefused(r) ==
  /\ req[r].op = "tx" /\ req[r].pc = "done"
  /\ Has(req[r], "payout") /\ isManualPayout(req[r].payout)
  /\ \E error \in ManualFilteringErrors : CaughtLast(r, error)

\* after the refusal of the direct call the request made one more call, the
\* scan over [created - 30 days, created + 1 day], and is answered with the
\* scanned transactions that reference the payout id (none when the scan
\* brought none)
CrossScanFollows ==
  \A r \in Slots :
    DirectRefused(r) =>
      /\ ~isManualPayout(req[r].payout)
      /\ req[r].caught \in ManualFilteringErrors
      /\ req[r].pc \in {"crossScan", "done"}
      /\ Len(req[r].callLog) = 3
      /\ req[r].callLog[2] = DirectCall(req[r].id, req[r].query)
      /\ req[r].callLog[3] = ScanCall(req[r].payout, 30, 1)
      /\ req[r].callLog[3].params.gte = req[r].payout.created - 30 * dayInSeconds
      /\ req[r].callLog[3].params.lte = req[r].payout.created + 1 * dayInSeconds
      /\ req[r].pc = "done" =>
           /\ resp[r].status = 200
           /\ resp[r].body.has_more = FALSE
           /\ resp[r].body.data =
                IF Has(resp[r], "scanned") /\ resp[r].scanned.data # NoData
                THEN SelectSeq(resp[r].scanned.data, LAMBDA tx : tx.payout = req[r].id)
                ELSE <<>>

\* the refused scan of a manual payout ends the request: empty set,
\* has_more=false, and the scan was its last call
ManualRefusalIsTerminal ==
  \A r \in Slots :
    ManualScanRefused(r) =>
      /\ resp[r].status = 200
      /\ resp[r].body = [data |-> <<>>, has_more |-> FALSE]
      /\ Len(req[r].callLog) = 2
      /\ req[r].callLog[2] = ScanCall(req[r].payout, 30, 1)

\* a direct call never ends the request with the condition as its cause: the
\* condition always leads to the scan
RefusalLeadsToScan ==
  \A r \in Slots :
    (req[r].pc = "direct" /\ req'[r].pc = "done" /\ Has(resp'[r], "cause"))
    => resp'[r].cause \notin ManualFilteringErrors

\* C21: when the direct payout-filter call of a payout classified automatic
\* fails with the manual-filtering condition, exactly one scan over
\* [created - 30 days, created + 1 day] follows and the response holds the
\* scanned transactions that reference the payout id; when the scan of a
\* payout classified manual fails with the condition, the response is the
\* empty set with has_more=false and no further upstream call is made.
C21_ManualConditionPaths ==
  /\ []CrossScanFollows
  /\ []ManualRefusalIsTerminal
  /\ [][RefusalLeadsToScan]_vars

\* the direct call of the automatic payout p was refused, the scan brought
\* four transactions and the one referencing p was returned
C21_Witness ==
  \E r \in Slots :
    /\ DirectRefused(r) /\ req[r].pc = "done"
    /\ req[r].id = PoA.id /\ Has(resp[r], "scanned")
    /\ Len(resp[r].scanned.data) = 4
    /\ resp[r].body.data = <<TxP>>

----------------------------------------------------------------------------
(* The 7-day fallback of the automatic path (SpecTx) *)

\* a direct result without records
NoRecords(transactions) == transactions.data = NoData \/ transactions.data = <<>>

\* the direct call of r resolved without records and the fallback was tried
FellBack(r) == req[r].op = "tx" /\ Has(req[r], "transactions")

\* the transactions a scan result holds for the payout id
FoundBy(response, id) ==
  IF Has(response, "scanned") /\ response.scanned.data # NoData
  THEN SelectSeq(response.scanned.data, LAMBDA tx : tx.payout = id)
  ELSE <<>>

\* the fallback is one scan over [created - 7 days, created + 7 days], made
\* for an automatic payout with a creation time whose direct call brought no
\* record; its findings, if any, are the response, else the empty direct
\* result is
FallbackIsOneScan ==
  \A r \in Slots :
    FellBack(r) =>
      /\ ~isManualPayout(req[r].payout) /\ req[r].payout.created # 0
      /\ NoRecords(req[r].transactions)
      /\ req[r].pc \in {"fallbackScan", "done"}
      /\ Len(req[r].callLog) = 3
      /\ req[r].callLog[2] = DirectCall(req[r].id, req[r].query)
      /\ req[r].callLog[3].fn = "balanceTransactions.list"
      /\ req[r].callLog[3].params =
           [gte |-> req[r].payout.created - 7 * dayInSeconds,
            lte |-> req[r].payout.created + 7 * dayInSeconds,
            limit |-> 100]
      /\ req[r].pc = "done" =>
           /\ resp[r].status = 200
           /\ resp[r].body =
                IF FoundBy(resp[r], req[r].id) # <<>>
                THEN [data |-> FoundBy(resp[r], req[r].id), has_more |-> FALSE]
                ELSE [data |-> <<>>, has_more |-> req[r].transactions.has_more]

\* a direct call that resolves without records for a payout with a creation
\* time does not end the request
EmptyDirectLeadsToScan ==
  \A r \in Slots :
    (req[r].pc = "direct" /\ req'[r].pc = "done" /\ Has(resp'[r], "direct"))
    => ~(NoRecords(resp'[r].direct) /\ req[r].payout.created # 0)

\* C22: when the successful direct payout-filter call of a payout classified
\* automatic and having a creation time returns zero records, exactly one
\* scan over [created - 7 days, created + 7 days] is issued; if the scan
\* yields transactions referencing the payout id the response is exactly
\* those with has_more=false, otherwise it is the empty direct result.
C22_SevenDayFallback ==
  /\ []FallbackIsOneScan
  /\ [][EmptyDirectLeadsToScan]_vars

\* the direct call for payout p brought nothing; the scan brought four
\* transactions, more remaining, and the one referencing p is the response
C22_Witness ==
  \E r \in Slots :
    /\ FellBack(r) /\ req[r].pc = "done" /\ req[r].id = PoA.id
    /\ Has(resp[r], "scanned") /\ resp[r].scanned.has_more
    /\ Len(resp[r].scanned.data) = 4
    /\ resp[r].body = [data |-> <<TxP>>, has_more |-> FALSE]

----------------------------------------------------------------------------
(* The upstream calls of a request (SpecCalls) *)

\* the calls a handler issued: the retrieval first and at most two
\* balance-transaction list calls for a transactions request, none of them
\* issued twice; one retrieval for a detail request; at most one list call
\* for a listing request, and none when the cache answered
CallBounds ==
  \A r \in Slots :
    /\ req[r].op = "tx" =>
         /\ req[r].calls = Len(req[r].callLog) /\ req[r].calls \in 1..3
         /\ req[r].callLog[1].fn = "payouts.retrieve"
         /\ \A i \in 2..Len(req[r].callLog) :
              req[r].callLog[i].fn = "balanceTransactions.list"
         /\ Distinct(req[r].callLog)
    /\ req[r].op = "detail" => req[r].calls = 1
    /\ req[r].op = "list" =>
         /\ req[r].calls \in {0, 1}
         /\ req[r].calls = 0 <=> req[r].lookup = "hit"
         /\ req[r].calls = 0 => req[r].pc = "done" /\ resp[r].kind = "hit"

\* a request awaits one call at a time: a further call is issued only in the
\* step in which the handler leaves the wait for the previous one
OneAfterAnother ==
  \A r \in Slots :
    (req[r].pc # "idle" /\ req'[r].calls # req[r].calls)
    => /\ req'[r].calls = req[r].calls + 1
       /\ req'[r].pc \notin {req[r].pc, "done"}

\* no request of any call was sent a second time
NeverResent == \A r \in Slots : ResendLog(r) = <<>>

\* the request of a call is sent again at most maxNetworkRetries times, and
\* only while the call is awaited
ResendsBounded ==
  \A r \in Slots :
    /\ \A i \in 1..Len(ResendLog(r)) : ResendLog(r)[i] \in 1..req[r].calls
    /\ \A call \in 1..3 : Resent(r, call) <= stripeMaxNetworkRetries

ResendsWhileAwaited ==
  \A r \in Slots :
    Len(ResendLog(r)') > Len(ResendLog(r))
    => /\ req[r].pc \notin {"idle", "done"}
       /\ req'[r].pc = req[r].pc /\ req'[r].calls = req[r].calls
       /\ resp' = resp /\ store' = store

----------------------------------------------------------------------------
(* The classification of the payout (SpecClass) *)

\* manual: the type is 'manual', or the automatic flag is false or missing
ClassifiedManual(payout) ==
  \/ payout.type = Manual
  \/ payout.automatic = "false"
  \/ payout.automatic = "missing"

\* the calls of r that filter by the payout id
DirectCalls(r) ==
  {i \in 1..Len(req[r].callLog) : Has(req[r].callLog[i].params, "payout")}

\* C24: a payout is classified manual when its type is 'manual' or its
\* automatic flag is false or missing, and automatic otherwise; the direct
\* payout-filter call is issued only for a payout classified automatic, and
\* for a payout classified manual the first and only balance-transaction
\* call is the scan over [created - 30 days, created + 1 day].
C24_Classification ==
  \A r \in Slots :
    (req[r].op = "tx" /\ Has(req[r], "payout")) =>
      LET payout == req[r].payout
      IN /\ isManualPayout(payout) <=> ClassifiedManual(payout)
         /\ DirectCalls(r) # {} => ~ClassifiedManual(payout)
         /\ ClassifiedManual(payout) =>
              /\ Len(req[r].callLog) = 2
              /\ req[r].callLog[2] =
                   Call("balanceTransactions.list",
                        [gte |-> payout.created - 30 * dayInSeconds,
                         lte |-> payout.created + 1 * dayInSeconds,
                         limit |-> 100])
         /\ ~ClassifiedManual(payout) =>
              /\ DirectCalls(r) = {2}
              /\ req[r].callLog[2].params.payout = req[r].id

\* a payout whose type is not 'manual' and whose automatic flag is missing
\* was answered from the scan, its only balance-transaction call
C24_Witness ==
  \E r \in Slots :
    /\ req[r].op = "tx" /\ req[r].pc = "done" /\ Has(req[r], "payout")
    /\ req[r].payout.type = Automatic /\ req[r].payout.automatic = "missing"
    /\ Has(resp[r], "scanned") /\ Len(req[r].callLog) = 2
    /\ resp[r].body.data = <<TxP>>

----------------------------------------------------------------------------
(* Retrieval and attribution before any balance-transaction call (SpecTx) *)

\* the calls of r to the balance-transaction list
ListCalls(r) ==
  {i \in 1..Len(req[r].callLog) : req[r].callLog[i].fn = "balanceTransactions.list"}

\* the retrieval of r failed with the upstream's not-found
RetrievalNotFound(r) ==
  /\ req[r].op = "tx" /\ req[r].pc = "done"
  /\ Len(req[r].callLog) = 1 /\ CaughtLast(r, ErrNotFound)

\* the payout r asks for does not pass the attribution check for r's tenant
AttributionFails(r) ==
  /\ req[r].op = "tx" /\ req[r].id # UnknownId
  /\ ~RefMatches(Held(r), req[r].tenant, cfg.allowUnattributedPayouts)

PayoutNotFound(response) ==
  response.status = 404 /\ DOMAIN response.body = {"error"}

\* a balance-transaction call is issued only after the retrieval brought the
\* payout and the payout passed the attribution check; a failed retrieval
\* with not-found and a failed check are answered PayoutNotFound with the
\* retrieval as the only call
RetrieveAndCheckFirst ==
  \A r \in Slots :
    req[r].op = "tx" =>
      /\ req[r].callLog[1] = Call("payouts.retrieve", [id |-> req[r].id])
      /\ ListCalls(r) # {} =>
           /\ 1 \notin ListCalls(r)
           /\ Has(req[r], "payout") /\ req[r].payout = Held(r)
           /\ RefMatches(req[r].payout, req[r].tenant, cfg.allowUnattributedPayouts)
      /\ RetrievalNotFound(r) => PayoutNotFound(resp[r]) /\ ListCalls(r) = {}
      /\ AttributionFails(r) =>
           /\ ListCalls(r) = {} /\ req[r].pc \in {"retrieve", "done"}
           /\ (req[r].pc = "done" /\ Retrieved(r)) => PayoutNotFound(resp[r])

\* an answered request issues no call afterwards
AnsweredIsFinal ==
  \A r \in Slots : req[r].pc = "done" => req'[r] = req[r] /\ resp'[r] = resp[r]

\* C25: in the transactions operation the payout retrieval completes and the
\* tenant attribution is checked before any balance-transaction call: when
\* the retrieval fails with not-found or the attribution check fails, the
\* response is PayoutNotFound and no balance-transaction call is ever issued
\* for the request.
C25_RetrieveThenCheck ==
  /\ []RetrieveAndCheckFirst
  /\ [][AnsweredIsFinal]_vars

\* with unattributed payouts not allowed, tenant a asked for the transactions
\* of the payout without tenant metadata and was refused after the retrieval
C25_Witness ==
  \E r \in Slots :
    /\ AttributionFails(r) /\ req[r].pc = "done" /\ Retrieved(r)
    /\ req[r].id = PoU.id /\ req[r].tenant = <<"a">>
    /\ ~cfg.allowUnattributedPayouts
    /\ PayoutNotFound(resp[r]) /\ Len(req[r].callLog) = 1

----------------------------------------------------------------------------
(* The cache entries under concurrent listing requests (Spec) *)

\* r fetched successfully and wrote its payload under key
Wrote(r, key) == Fresh(r) /\ req[r].key = key

\* r is the last of the requests that wrote under key
WroteLast(r, key) ==
  /\ Wrote(r, key)
  /\ \A s \in Slots \ {r} : Wrote(s, key) => s \in resp[r].after

\* every entry holds, whole, the payload one request with that key built from
\* its own fetched page and answered with: the request that wrote last
EntriesAreWholePayloads ==
  \A key \in DOMAIN store :
    \E r \in Slots :
      /\ WroteLast(r, key)
      /\ store[key].value = resp[r].body
      /\ store[key].value =
           listPayload(req[r].tenant, req[r].query, resp[r].page,
                       cfg.allowUnattributedPayouts)
      /\ DOMAIN store[key].value = {"success", "data", "total_count", "has_more"}
      /\ store[key].value.total_count = Len(store[key].value.data)

\* every request that was not served from the cache issued its own call
EachMissFetches ==
  \A r \in Slots :
    (req[r].op = "list" /\ req[r].lookup # "hit") => req[r].calls = 1

\* only a successful fetch writes, and it writes its own key only; the other
\* entries change by nothing but the removal of an expired entry at a lookup
OnlyFreshWrites ==
  \A key \in DOMAIN store' :
    (key \notin DOMAIN store \/ store'[key] # store[key])
    => \E r \in Slots :
         /\ req[r].pc = "wait" /\ req'[r].pc = "done"
         /\ resp'[r].kind = "fresh" /\ req[r].key = key
         /\ store'[key].value = resp'[r].body

\* C26: under any interleaving of concurrent listing requests, every cache
\* entry's value is at all times the complete payload of one single
\* successful upstream fetch for a request with exactly that key, never a mix
\* of two fetches and never a degraded payload; two requests that miss on the
\* same key each issue their own upstream call and the entry ends up holding
\* the payload of the one that wrote last.
C26_EntriesAreAtomic ==
  /\ []EntriesAreWholePayloads
  /\ []EachMissFetches
  /\ [][OnlyFreshWrites]_vars

\* two requests missed on the same key before either was answered, fetched
\* different pages, and the entry holds the payload of the later writer
C26_Witness ==
  \E r1, r2 \in Slots :
    /\ r1 # r2 /\ Fresh(r1) /\ Fresh(r2)
    /\ Wrote(r1, req[r2].key) /\ WroteLast(r2, req[r2].key)
    /\ r1 \notin req[r2].started /\ r2 \notin req[r1].started
    /\ req[r1].lookup = "absent" /\ req[r2].lookup = "absent"
    /\ resp[r1].body # resp[r2].body
    /\ req[r2].key \in DOMAIN store
    /\ store[req[r2].key].value = resp[r2].body

----------------------------------------------------------------------------
(* Limit, offset and the upstream page size (SpecPage) *)

\* the limit in force: the parsed limit brought into [1,100], 100 when the
\* parameter is absent or not a number
EffectiveLimit(q) ==
  LET parsed == parseInt(Param(q, "limit"))
  IN IF parsed.nan THEN 100
     ELSE IF parsed.n < 1 THEN 1
     ELSE IF parsed.n > 100 THEN 100
     ELSE parsed.n

\* the offset in force: the parsed offset, 0 when absent, not a number or
\* negative
EffectiveOffset(q) ==
  LET parsed == parseInt(Param(q, "offset"))
  IN IF parsed.nan THEN 0 ELSE IF parsed.n < 0 THEN 0 ELSE parsed.n

\* the page size to ask the upstream for
PageSize(q) ==
  IF Param(q, "starting_after") \notin {Undef, <<>>}
       \/ Param(q, "ending_before") \notin {Undef, <<>>}
  THEN EffectiveLimit(q)
  ELSE IF EffectiveLimit(q) + EffectiveOffset(q) < 100
  THEN EffectiveLimit(q) + EffectiveOffset(q)
  ELSE 100

\* C27: the listing's limit is the parsed limit clamped to [1,100] (100 when
\* absent or not a number), its offset the parsed offset (0 when absent, not
\* a number or negative); the page size requested upstream is the limit with
\* a cursor and min(limit + offset, 100) without, always within [1,100].
C27_PageSize ==
  \A r \in Slots :
    req[r].op = "list" =>
      LET q == req[r].query
      IN /\ parseLimit(Param(q, "limit")) = EffectiveLimit(q)
         /\ parseOffset(Param(q, "offset")) = EffectiveOffset(q)
         /\ listParamsOf(q).limit = PageSize(q)
         /\ listParamsOf(q).limit \in 1..100
         /\ Fresh(r) =>
              /\ Len(resp[r].page.data) <= PageSize(q)
              /\ Len(resp[r].body.data) <= EffectiveLimit(q)

\* limit=7 and offset=93 without a cursor: a page of 100 was asked for and
\* the request was answered from it
C27_Witness ==
  \E r \in Slots :
    /\ Fresh(r)
    /\ Param(req[r].query, "limit") = <<"7">>
    /\ Param(req[r].query, "offset") = <<"9", "3">>
    /\ ~hasCursor(req[r].query)
    /\ listParamsOf(req[r].query).limit = 100

----------------------------------------------------------------------------
(* The shape of a fresh payload (SpecQuery) *)

\* position in the fetched page of the record with the given id
PositionOf(page, id) == CHOOSE i \in 1..Len(page.data) : page.data[i].id = id

\* the data are records of the fetched page, shaped, in the page's order
InUpstreamOrder(r) ==
  LET data == resp[r].body.data
      page == resp[r].page
  IN /\ \A i \in 1..Len(data) :
          /\ \E k \in 1..Len(page.data) : page.data[k].id = data[i].id
          /\ data[i] = shapePayoutForResponse(page.data[PositionOf(page, data[i].id)])
     /\ \A i, j \in 1..Len(data) :
          i < j => PositionOf(page, data[i].id) < PositionOf(page, data[j].id)

\* C28: every fresh listing payload holds at most limit records, in upstream
\* order; its total_count is the length of its data; and its has_more is the
\* has_more flag of the upstream page, unchanged, also when the offset skip,
\* the filters or the truncation removed records of the page.
C28_FreshPayloadShape ==
  \A r \in Slots :
    Fresh(r) =>
      /\ Len(resp[r].body.data) <= parseLimit(Param(req[r].query, "limit"))
      /\ InUpstreamOrder(r)
      /\ resp[r].body.total_count = Len(resp[r].body.data)
      /\ resp[r].body.has_more = resp[r].page.has_more
      /\ resp[r].body.success = TRUE

\* a page of two records without more behind it, cut to one record by
\* limit=1: has_more is false although a record was left out
C28_Witness ==
  \E r \in Slots :
    /\ Fresh(r) /\ Len(resp[r].page.data) = 2 /\ ~resp[r].page.has_more
    /\ Param(req[r].query, "limit") = <<"1">>
    /\ \A i \in 1..2 : payoutFilter(resp[r].page.data[i], req[r].tenant,
                                    req[r].query, cfg.allowUnattributedPayouts)
    /\ Len(resp[r].body.data) = 1 /\ resp[r].body.total_count = 1
    /\ ~resp[r].body.has_more

----------------------------------------------------------------------------
(* The tenantId parameter (SpecOverride) *)

CarriesTenantId(r) == Param(req[r].query, "tenantId") \notin {Undef, <<>>}

\* r was answered from a cache entry: a hit, or a failed fetch that fell back
\* on the entry
ServedFromCache(r) ==
  ListDone(r) /\ resp[r].status = 200 /\ Flag(resp[r].body, "cached")

\* a fresh answer to a request carrying tenantId holds the records of the
\* page that match the normalized tenantId value, the header's tenant
\* playing no part, and was stored under a key whose tenant is the header's
FiltersByTenantId ==
  \A r \in Slots :
    (req[r].op = "list" /\ CarriesTenantId(r)) =>
      /\ req[r].key[1] = req[r].tenant
      /\ Fresh(r) =>
           LET Keep(po) == RefMatches(po, Param(req[r].query, "tenantId"),
                                      cfg.allowUnattributedPayouts)
               kept == SelectSeq(resp[r].page.data, Keep)
           IN resp[r].body.data
                = [i \in 1..Len(kept) |-> shapePayoutForResponse(kept[i])]

\* an answer from the cache is the payload of a request with the same header
\* tenant and the same tenantId value (or none, as the answered request)
CacheKeepsTenantIdApart ==
  \A r2 \in Slots :
    ServedFromCache(r2) =>
      \E r1 \in Slots \ {r2} :
        /\ Fresh(r1) /\ req[r1].key = req[r2].key
        /\ req[r1].tenant = req[r2].tenant
        /\ Param(req[r1].query, "tenantId") = Param(req[r2].query, "tenantId")
        /\ PayloadOf(resp[r2].body) = PayloadOf(resp[r1].body)

\* C29: when the query carries tenantId, the listing filters records against
\* the normalized tenantId value instead of the header tenant, while the
\* tenant component of the cache key stays the header tenant; a payload
\* computed under one tenantId value is never served from the cache to a
\* request carrying a different tenantId value or none.
C29_TenantIdOverride == FiltersByTenantId /\ CacheKeepsTenantIdApart

\* tenant a asked with tenantId=b and was given the payout of tenant b; its
\* next request, without tenantId and within the TTL, found no entry
C29_Witness ==
  \E r1, r2 \in Slots :
    /\ Fresh(r1) /\ req[r1].tenant = <<"a">>
    /\ Param(req[r1].query, "tenantId") = <<"b">>
    /\ Len(resp[r1].body.data) = 1 /\ resp[r1].body.data[1].id = PoB.id
    /\ req[r2].op = "list" /\ r1 \in req[r2].started
    /\ req[r2].query = <<>> /\ req[r2].tenant = <<"a">>
    /\ req[r2].startedAt = resp[r1].wroteAt
    /\ req[r2].lookup = "absent" /\ req[r2].calls = 1

----------------------------------------------------------------------------
(* Termination under a positive upstream bound (SpecLive) *)

\* r has its response
AnsweredNow(r) == req[r].pc = "done" /\ resp[r].status # 0

\* no wait outlasts the bound, no request waits more than three times, and a
\* listing request whose timer fired is answered degraded
WaitsAreBounded ==
  \A r \in Slots :
    /\ Waiting(r) =>
         /\ req[r].calls \in 1..3
         /\ req[r].op \in {"list", "detail"} => req[r].calls = 1
         /\ now <= req[r].callStart + cfg.stripeTimeoutMs
    /\ (ListDone(r) /\ Has(resp[r], "cause") /\ resp[r].cause = ErrStripeTimeout)
         => /\ resp[r].kind = "degraded" /\ resp[r].status = 200
            /\ Flag(resp[r].body, "stale")
            /\ resp[r].body.error = "stripe_timeout"

\* C30: with a positive upstream bound configured, every listing request
\* eventually receives a response even if its upstream call never settles
\* (the timer fires and the request degrades), and every detail or
\* transactions request eventually receives a response or an error, after
\* at most three bounded waits.
C30_EventuallyAnswered ==
  /\ [](cfg.stripeTimeoutMs > 0)
  /\ []WaitsAreBounded
  /\ \A r \in LiveSlots : Waiting(r) ~> AnsweredNow(r)

\* a transactions request was answered when the timer ended its third wait,
\* and a listing request was answered degraded by the timer
C30_Witness ==
  /\ req[1].op = "tx" /\ AnsweredNow(1) /\ req[1].calls = 3
  /\ Has(resp[1], "cause") /\ resp[1].cause = ErrStripeTimeout
  /\ Degraded(2) /\ resp[2].cause = ErrStripeTimeout

----------------------------------------------------------------------------
(* The cache under a failing upstream (Spec) *)

\* the step in which a listing request gets the failure of its upstream call
\* leaves the cache as it is
FailureWritesNothing ==
  \A r \in Slots :
    (/\ req[r].op = "list" /\ req[r].pc = "wait"
     /\ req'[r].pc = "done" /\ resp'[r].kind = "degraded")
    => store' = store

\* the step in which a listing request looks its key up changes the cache by
\* nothing but the removal of the expired entry under that key
LookupOnlyRemovesExpired ==
  \A r \in Slots :
    (req[r].pc = "idle" /\ req'[r].pc # "idle" /\ req'[r].op = "list")
    => \/ store' = store
       \/ /\ req'[r].lookup = "expired"
          /\ req'[r].key \in DOMAIN store
          /\ PastExpiry(now, store[req'[r].key].expiresAt)
          /\ store' = [k \in DOMAIN store \ {req'[r].key} |-> store[k]]

\* no entry holds a payload marked stale or carrying an error reason, and no
\* answer served as a plain cache hit carries either
NothingDegradedStored ==
  /\ \A key \in DOMAIN store :
       /\ ~Has(store[key].value, "stale") /\ ~Has(store[key].value, "error")
       /\ \E r \in Slots : Fresh(r) /\ store[key].value = resp[r].body
  /\ \A r \in Slots :
       Hit(r) => /\ ~Has(resp[r].body, "stale") /\ ~Has(resp[r].body, "error")
                 /\ \E s \in Slots :
                      Fresh(s) /\ PayloadOf(resp[r].body) = resp[s].body

\* C31: a listing request whose upstream call fails writes nothing to the
\* cache: apart from the lazy removal of an expired entry by its own lookup,
\* the cache after the request is the cache before it, so an empty or
\* degraded payload is never stored and never served later as a cached
\* result.
C31_FailureLeavesCache ==
  /\ [][FailureWritesNothing]_vars
  /\ [][LookupOnlyRemovesExpired]_vars
  /\ []NothingDegradedStored

\* a request removed the expired entry under its key, its upstream call
\* failed, and the request issued after its answer found no entry
C31_Witness ==
  \E r1, r2 \in Slots :
    /\ Degraded(r1) /\ req[r1].lookup = "expired"
    /\ req[r2].op = "list" /\ r1 \in req[r2].started
    /\ req[r2].key = req[r1].key
    /\ req[r2].lookup = "absent" /\ req[r2].calls = 1

----------------------------------------------------------------------------
(* The entry a refreshing request writes (Spec) *)

\* r looks the cache up under its key
Reads(r) == req[r].op = "list" /\ req[r].lookup # "skipped"

\* no request reads under the key of a refreshing request
RefreshKeyIsNeverRead ==
  \A r1, r2 \in Slots :
    (Refreshing(r1) /\ Reads(r2)) => req[r2].key # req[r1].key

\* the step in which a refreshing request is answered changes no entry other
\* than the one under its own key
RefreshWritesOwnKeyOnly ==
  \A r \in Slots :
    (Refreshing(r) /\ req[r].pc = "wait" /\ req'[r].pc = "done")
    => /\ DOMAIN store \subseteq DOMAIN store'
       /\ \A key \in DOMAIN store : key # req[r].key => store'[key] = store[key]
       /\ \A key \in DOMAIN store' \ DOMAIN store : key = req[r].key

\* what a request without refresh is served from the cache was written by a
\* request without refresh under the same key
ServedFromNonRefresh ==
  \A r2 \in Slots :
    (ServedFromCache(r2) /\ Reads(r2)) =>
      \E r1 \in Slots \ {r2} :
        /\ Fresh(r1) /\ ~Refreshing(r1) /\ req[r1].key = req[r2].key
        /\ PayloadOf(resp[r2].body) = resp[r1].body

\* C32: the cache key is built from the full query, refresh included, so the
\* entry a successful refresh=true request writes lies under a key that no
\* request ever reads; a refresh=true request leaves unchanged the response
\* a later request without refresh receives and does not replace the entry
\* such a request is served from.
C32_RefreshEntryUnread ==
  /\ []RefreshKeyIsNeverRead
  /\ []ServedFromNonRefresh
  /\ [][RefreshWritesOwnKeyOnly]_vars

\* a request without refresh was answered from the upstream; a refreshing
\* request then fetched another page; a third request without refresh was
\* served the first one's payload
C32_Witness ==
  \E r1, r2, r3 \in Slots :
    /\ Fresh(r1) /\ ~Refreshing(r1)
    /\ Fresh(r2) /\ Refreshing(r2) /\ r1 \in req[r2].started
    /\ resp[r2].body.data # resp[r1].body.data
    /\ Hit(r3) /\ ~Refreshing(r3) /\ r2 \in req[r3].started
    /\ req[r3].tenant = req[r2].tenant
    /\ resp[r3].body.data = resp[r1].body.data

----------------------------------------------------------------------------
(* The tenant of the cache key (SpecHeader) *)

\* the headers of r1 and r2 are different strings of the same tenant
SameTenantOtherSpelling(r1, r2) ==
  /\ req[r1].tenant # req[r2].tenant
  /\ normalizeTenant(req[r1].tenant) = normalizeTenant(req[r2].tenant)

\* C33: a cache entry written while serving a request with tenant header A
\* is only ever returned to requests whose tenant header is the identical
\* string A; the key holds the raw header, so two headers that differ only
\* in case or blanks never share an entry although they normalize to the
\* same tenant.
C33_KeyHoldsRawHeader ==
  /\ \A r2 \in Slots :
       ServedFromCache(r2) =>
         \E r1 \in Slots \ {r2} :
           /\ Fresh(r1) /\ req[r1].key = req[r2].key
           /\ req[r1].tenant = req[r2].tenant
           /\ PayloadOf(resp[r2].body) = resp[r1].body
  /\ \A r1, r2 \in Slots :
       (req[r1].op = "list" /\ req[r2].op = "list") =>
         /\ req[r1].key[1] = req[r1].tenant
         /\ req[r1].tenant # req[r2].tenant => req[r1].key # req[r2].key
         /\ (Fresh(r1) /\ r1 \in req[r2].started /\ SameTenantOtherSpelling(r1, r2))
              => /\ req[r2].lookup = "absent" /\ req[r2].calls = 1
                 /\ ~ServedFromCache(r2)

\* header "a" was answered from the upstream; header "A", in the same
\* second, found no entry and called the upstream itself
C33_Witness ==
  \E r1, r2 \in Slots :
    /\ Fresh(r1) /\ req[r1].tenant = <<"a">>
    /\ req[r2].op = "list" /\ req[r2].tenant = <<"A">>
    /\ r1 \in req[r2].started /\ req[r2].startedAt = resp[r1].wroteAt
    /\ req[r2].query = req[r1].query
    /\ req[r2].lookup = "absent" /\ req[r2].calls = 1

----------------------------------------------------------------------------
(* The date-range scans (SpecLedger) *)

\* the calls of r that select by creation time
ScanCalls(r) ==
  {i \in 1..Len(req[r].callLog) : Has(req[r].callLog[i].params, "gte")}

\* r was answered with transactions after a scan was made for it
AnsweredAfterScan(r) ==
  /\ req[r].op = "tx" /\ req[r].pc = "done"
  /\ ScanCalls(r) # {}
  /\ resp[r].status = 200 /\ Has(resp[r].body, "data")

\* C34: on every date-range-scan path of the transactions operation (manual,
\* cross-fallback after a manual-filtering rejection, 7-day fallback) the
\* scan call asks for a page of 100 without a cursor, whatever the caller's
\* limit, starting_after and ending_before; every transaction in the
\* response references the requested payout id, has_more is false, and the
\* number of records is bounded by 100, not by the caller's limit.
C34_ScanShape ==
  \A r \in Slots :
    req[r].op = "tx" =>
      /\ \A i \in ScanCalls(r) :
           /\ req[r].callLog[i].fn = "balanceTransactions.list"
           /\ DOMAIN req[r].callLog[i].params = {"gte", "lte", "limit"}
           /\ req[r].callLog[i].params.limit = 100
      /\ AnsweredAfterScan(r) =>
           /\ \A k \in 1..Len(resp[r].body.data) :
                resp[r].body.data[k].payout = req[r].id
           /\ resp[r].body.has_more = FALSE
           /\ Len(resp[r].body.data) <= 100
           /\ Has(resp[r], "scanned") =>
                /\ Len(resp[r].scanned.data) <= 100
                /\ Len(resp[r].body.data) <= Len(resp[r].scanned.data)

\* the caller asked for limit=1 after a cursor; the scan of the manual
\* payout q asked for 100 without cursor and two transactions were returned
C34_Witness ==
  \E r \in Slots :
    /\ AnsweredAfterScan(r) /\ req[r].id = PoB.id
    /\ Param(req[r].query, "limit") = <<"1">>
    /\ Param(req[r].query, "starting_after") = <<"1">>
    /\ req[r].callLog[2].params.limit = 100
    /\ Len(resp[r].body.data) = 2 /\ ~resp[r].body.has_more

----------------------------------------------------------------------------
(* Failures of the fallback scans (SpecTx) *)

\* the failures a scan of r can end with
ScanFailures == TxErrors \cup {ErrStripeTimeout}

\* the second balance-transaction call of r, a fallback scan, failed
ScanFailed(r) ==
  /\ req[r].op = "tx" /\ req[r].pc = "done"
  /\ Len(req[r].callLog) = 3
  /\ Has(resp[r], "cause")

\* C35: on the automatic path a failure of a fallback scan never changes the
\* kind of response: when the 7-day fallback scan fails, for any reason, the
\* response is the successful empty direct result; when the 30-day scan made
\* after a manual-filtering rejection fails, for any reason, the response is
\* the empty set with has_more=false.
C35_ScanFailureIsSilent ==
  \A r \in Slots :
    ScanFailed(r) =>
      /\ ~isManualPayout(req[r].payout)
      /\ resp[r].cause \in ScanFailures
      /\ resp[r].status = 200
      /\ FellBack(r) =>
           /\ resp[r].direct = req[r].transactions
           /\ resp[r].body = [data |-> <<>>,
                              has_more |-> req[r].transactions.has_more]
      /\ DirectRefused(r) =>
           resp[r].body = [data |-> <<>>, has_more |-> FALSE]
      /\ FellBack(r) \/ DirectRefused(r)

\* the 30-day scan made after the rejection of the direct call failed with
\* the upstream's not-found, and the request was answered 200 with the
\* empty set
C35_Witness ==
  \E r \in Slots :
    /\ ScanFailed(r) /\ DirectRefused(r)
    /\ resp[r].cause = ErrNotFound
    /\ resp[r].status = 200
    /\ resp[r].body = [data |-> <<>>, has_more |-> FALSE]

----------------------------------------------------------------------------
(* Waits without an upstream bound (SpecBound) *)

\* the configured bound is absent, zero or negative
WithoutBound == ~Has(cfg, "stripeTimeoutMs") \/ cfg.stripeTimeoutMs <= 0

\* the upstream settles the call r is waiting for
UpstreamSettles(r) ==
  \/ \E p \in CachePages : ListResolves(r, p)
  \/ \E e \in BoundErrors : ListRejects(r, e)
  \/ \E po \in UpstreamPayouts : DetailResolves(r, po)
  \/ \E e \in BoundErrors : DetailRejects(r, e)
  \/ \E po \in UpstreamPayouts : TxRetrieveResolves(r, po)
  \/ \E txs \in PairPages : ManualScanResolves(r, txs)
  \/ \E txs \in PairPages : DirectResolves(r, txs)
  \/ \E txs \in PairPages : FallbackScanResolves(r, txs)
  \/ \E txs \in PairPages : CrossScanResolves(r, txs)
  \/ \E e \in BoundErrors : TxRejects(r, e)

\* without a bound no timer is ever due, and no handler is ever given the
\* gateway's own STRIPE_TIMEOUT failure: every failure a handler caught is
\* one the upstream produced
NoGatewayTimeout ==
  WithoutBound =>
    \A r \in Slots :
      /\ ~TimerDue(r)
      /\ Has(resp[r], "cause") => resp[r].cause \in BoundErrors
      /\ Has(req[r], "caught") => req[r].caught \in BoundErrors

\* without a bound a waiting request moves only when the upstream settles
\* its call: while the call stays unsettled, whatever else happens and
\* however much time passes, the request has no response
WaitsForUpstream ==
  \A r \in Slots :
    (WithoutBound /\ Waiting(r) /\ ~UpstreamSettles(r)) =>
      /\ req'[r] = req[r]
      /\ resp'[r] = NoResp

\* C36: when the configured upstream bound is absent, zero or negative, the
\* bounded-wait adapter starts no timer and returns the upstream call's own
\* outcome unchanged: no STRIPE_TIMEOUT failure is ever produced by the
\* gateway, and a request whose upstream call never settles never receives
\* a response.
C36_NoBoundNoTimer ==
  /\ []NoGatewayTimeout
  /\ [][WaitsForUpstream]_vars

\* with a negative bound, a request has been waiting for as long as the
\* clock of the model runs and still has no response, while a later request
\* was answered with the upstream's own socket timeout
C36_Witness ==
  /\ Has(cfg, "stripeTimeoutMs") /\ cfg.stripeTimeoutMs < 0
  /\ now = MsPerSecond * (1 + MaxTicks)
  /\ Waiting(1) /\ req[1].callStart = MsPerSecond /\ resp[1] = NoResp
  /\ Degraded(2) /\ resp[2].cause = ErrEtimedout

====
